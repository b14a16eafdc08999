---------------------------- MODULE MCQueuePair ----------------------------
(***************************************************************************)
(* Model-checking instance of QueuePair: 4-entry RX and TX rings with the *)
(* code's ratios (refill hysteresis and CQ tail batch below the ring,     *)
(* full_size half of it), a worker ring of 4 with batches of 2 so that    *)
(* if_pull_rx's cut at the end of bufs[] happens, and a mempool smaller   *)
(* than the rings and the worker ring together.  Packets carry no hint or *)
(* a hint for app 1, and the message register holds a rearm pair.        *)
(***************************************************************************)
EXTENDS QueuePair
=============================================================================
