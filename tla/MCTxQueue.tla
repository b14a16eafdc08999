----------------------------- MODULE MCTxQueue -----------------------------
(***************************************************************************)
(* Model-checking instance of TxQueue: a 4-entry ring (256 in the code)   *)
(* with full_size 2 (size >> 1), 16-value driver counters and 8-value NIC  *)
(* pointers so that both wrap, and a reap budget of 1 below full_size as   *)
(* 64 is below 128 in the code.                                            *)
(***************************************************************************)
EXTENDS TxQueue
=============================================================================
