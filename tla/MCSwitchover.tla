---------------------------- MODULE MCSwitchover ----------------------------
(***************************************************************************)
(* Three nodes.                                                            *)
(***************************************************************************)
EXTENDS Switchover, TLC

CONSTANTS a, b, c

Symmetry == Permutations(Node)
=============================================================================
