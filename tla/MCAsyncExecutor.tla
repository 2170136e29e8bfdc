--------------------------- MODULE MCAsyncExecutor ---------------------------
(***************************************************************************)
(* AsyncExecutor for TLC.  Threads are not declared interchangeable: the   *)
(* run checks liveness.                                                    *)
(***************************************************************************)
EXTENDS AsyncExecutor
=============================================================================
