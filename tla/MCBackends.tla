----------------------------- MODULE MCBackends -----------------------------
(***************************************************************************)
(* Two nodes.                                                              *)
(***************************************************************************)
EXTENDS Backends, TLC

CONSTANTS a, b

Symmetry == Permutations(Node)
=============================================================================
