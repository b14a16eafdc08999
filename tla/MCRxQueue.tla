----------------------------- MODULE MCRxQueue -----------------------------
(***************************************************************************)
(* Model-checking instance of RxQueue: a 4-entry ring (256 in the code)    *)
(* with 16-value driver counters and 8-value NIC pointers so that both     *)
(* wrap within a behaviour, the refill hysteresis and CQ tail batch scaled *)
(* down below the ring size as in the code (8 and 32 against 256).        *)
(***************************************************************************)
EXTENDS RxQueue

\* rx_hash values: no hint, and the spec's example hint 0x00120040
\* (app 4, content 0x0012).
MCHashes == {0, 1179712}

\* The caller's nic_hints array, scaled from the 16 entries of
\* ixy-throughput's worker ring below a num_bufs of 3.
MCHintCap == 2

MCHintsFit == HintsFit(MCHintCap)
=============================================================================
