----------------------------- MODULE MCBroadcast -----------------------------
(***************************************************************************)
(* Instances of Broadcast for TLC.  No symmetry: a run checks liveness.    *)
(***************************************************************************)
EXTENDS Broadcast
=============================================================================
