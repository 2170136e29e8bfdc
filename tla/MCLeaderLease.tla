--------------------------- MODULE MCLeaderLease ---------------------------
(***************************************************************************)
(* LeaderLease for TLC: interchangeable nodes.                             *)
(***************************************************************************)
EXTENDS LeaderLease, TLC

NodeSymmetry == Permutations(Node)
=============================================================================
