------------------------------- MODULE PacketFifo -----------------------------
(***************************************************************************)
(* What a packet queue promises to the side that takes packets out of it   *)
(* (the caller of a receive queue, the wire of a transmit queue): packets  *)
(* enter and leave in batches, in the order they entered,    *)
(* each exactly once, and every packet that entered eventually leaves.     *)
(* Packets are named by the order in which they entered.                   *)
(***************************************************************************)
EXTENDS Naturals, Sequences

CONSTANT MaxPkts

VARIABLES arrived, out

Init == arrived = 0 /\ out = <<>>

Arrive ==
  \E k \in 1 .. MaxPkts - arrived :
    /\ arrived' = arrived + k
    /\ UNCHANGED out

Deliver ==
  \E k \in 1 .. arrived - Len(out) :
    /\ out' = out \o [i \in 1 .. k |-> Len(out) + i]
    /\ UNCHANGED arrived

Next == Arrive \/ Deliver

Spec == Init /\ [][Next]_<<arrived, out>> /\ WF_<<arrived, out>>(Deliver)
=============================================================================
