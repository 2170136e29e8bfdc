----------------------------- MODULE MCSettings -----------------------------
(***************************************************************************)
(* A ttl of 1 leaves no time for a watchdog, and the device that cannot be *)
(* set has the timeout for a ttl of 3.                                     *)
(***************************************************************************)
EXTENDS Settings
=============================================================================
