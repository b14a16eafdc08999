------------------------------ MODULE Mempool ------------------------------
(***************************************************************************)
(* The packet-buffer mempool of the driver (memory.c of ixy, which is not  *)
(* part of this repository's sources: modelled from spec section 4.2).     *)
(*                                                                         *)
(* A pool is a LIFO free list of buffer ids and a reference count per      *)
(* buffer.  pkt_buf_alloc pops the top of the list and hands out the       *)
(* buffer with ref_count 1; pkt_buf_free decrements ref_count and pushes   *)
(* the buffer back when it reaches zero.  The operators below are pure:    *)
(* they map a pool value to the pool value after the call, so that the     *)
(* driver modules can fold them over the buffers one handler touches.      *)
(***************************************************************************)
EXTENDS Naturals, Sequences, SequencesExt

CONSTANT NumBufs      \* number of entries memory_allocate_mempool carves

Bufs == 1 .. NumBufs

\* A freshly carved pool: every buffer on the free list, none referenced.
EmptyRefs == [b \in Bufs |-> 0]
InitPool  == [stack |-> [i \in 1 .. NumBufs |-> i], ref |-> EmptyRefs]

PoolType == [stack : Seq(Bufs), ref : [Bufs -> Nat]]

\* The buffers the next n successful pkt_buf_alloc calls return, in order.
AllocTop(p, n) == SubSeq(p.stack, 1, n)

\* Mutation: the allocated buffers are not popped off the free list.
MutAfterAllocNoPop(p, n) ==
  [stack |-> p.stack,
   ref   |-> [b \in Bufs |-> IF b \in ToSet(AllocTop(p, n)) THEN 1 ELSE p.ref[b]]]

\* The pool after n pkt_buf_alloc calls (n =< Len(p.stack)).
AfterAlloc(p, n) ==
  [stack |-> SubSeq(p.stack, n + 1, Len(p.stack)),
   ref   |-> [b \in Bufs |-> IF b \in ToSet(AllocTop(p, n)) THEN 1 ELSE p.ref[b]]]

\* The pool after pkt_buf_free(b).
AfterFree(p, b) ==
  LET r == p.ref[b] - 1
  IN  [stack |-> IF r = 0 THEN <<b>> \o p.stack ELSE p.stack,
       ref   |-> [p.ref EXCEPT ![b] = r]]

\* The pool after freeing the buffers of a sequence, first one first.
AfterFreeAll(p, s) == FoldLeft(AfterFree, p, s)

\* The pool after incrementing ref_count of b (a buffer shared with TX).
AfterRetain(p, b) == [p EXCEPT !.ref[b] = @ + 1]

\* Buffers currently on the free list.
FreeBufs(p) == ToSet(p.stack)
=============================================================================
