----------------------------- MODULE MCNodeLife -----------------------------
(***************************************************************************)
(* Two nodes.                                                              *)
(***************************************************************************)
EXTENDS NodeLife, TLC

CONSTANTS a, b

Symmetry == Permutations(Node)
=============================================================================
