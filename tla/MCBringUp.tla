----------------------------- MODULE MCBringUp -----------------------------
(***************************************************************************)
(* Model-checking instance of BringUp: three queues, so that every loop of *)
(* mqnic_reset_and_init has a first, a middle and a last turn, and up to   *)
(* four packets the NIC takes per queue.                                   *)
(***************************************************************************)
EXTENDS BringUp
=============================================================================
