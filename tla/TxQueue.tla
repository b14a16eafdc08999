------------------------------ MODULE TxQueue ------------------------------
(***************************************************************************)
(* One transmit queue of the mqnic userspace driver (mqnic.c), the caller  *)
(* that feeds it (if_send_tx of ixy-throughput.c) and the NIC transmit     *)
(* engine on the other side of its two rings.                              *)
(*                                                                         *)
(* Caller: buffers ready to send wait in `unsent`, oldest first.  When at  *)
(* least TX_BATCH_SIZE wait, if_send_tx calls mqnic_tx_batch and then      *)
(* frees (pkt_buf_free) the buffers the driver accepted.                   *)
(*                                                                         *)
(* mqnic_tx_batch is one step: mqnic_process_tx_cq reaps at most the       *)
(* budget of completions with the bypass peek on cpl.len, frees their      *)
(* buffers, writes the CQ tail register unconditionally, advances          *)
(* txq_tail_ptr by the number reaped and walks txq_clean_tail_ptr over     *)
(* emptied slots (a live slot there is the fatal bypass desync); then the  *)
(* enqueue loop posts buffers until the ring holds full_size, taking a     *)
(* reference on each, and the head register is written once.  The NIC     *)
(* only touches slots the call does not, so its steps commute with the     *)
(* call's loops.                                                           *)
(*                                                                         *)
(* NIC side (modelled from spec sections 2, 3 and 4.5): it sends the       *)
(* buffer of the descriptor at its tail when the head register says one is *)
(* posted and its view of the completion ring has room, and publishes a    *)
(* completion carrying the descriptor's len and slot.                      *)
(***************************************************************************)
EXTENDS Integers, Sequences, FiniteSets, SequencesExt

CONSTANTS
  Size,         \* NUM_TX_QUEUE_ENTRIES = NUM_CPL_QUEUE_ENTRIES (256)
  FullSize,     \* full_size = size >> 1
  PtrMod,       \* 2^32: the driver's ring counters are uint32_t
  HwMod,        \* hw_ptr_mask + 1 (2^16)
  ReapBudget,   \* budget mqnic_tx_batch passes to mqnic_process_tx_cq (64)
  TxBatchSize,  \* TX_BATCH_SIZE of ixy-throughput (1)
  NumBufs,      \* entries of the mempool the sent buffers come from
  Lens,         \* payload sizes of the buffers the caller sends
  MaxPkts,      \* packets the caller sends in one behaviour
  NULL

ASSUME Size > 1 /\ FullSize =< Size /\ PtrMod % Size = 0 /\ HwMod % Size = 0
ASSUME ReapBudget >= 1 /\ TxBatchSize >= 1 /\ NULL \notin Nat

VARIABLES
  txq_head_ptr, txq_tail_ptr, txq_clean_tail_ptr, cpl_tail_ptr,
  txq_virtual_addresses,   \* slot -> buffer posted to the NIC, or NULL
  txq_descriptors,         \* slot -> [buf, len] as the NIC reads it
  cpl_descriptors,         \* slot -> completion record [len, index]
  reg_txq_head,            \* MQNIC_QUEUE_HEAD_PTR_REG as the NIC sees it
  reg_cpl_tail,            \* MQNIC_CPL_QUEUE_TAIL_PTR_REG as the NIC sees it
  nic_txq_tail, nic_cpl_head,
  pool,                    \* the buffers' mempool (Mempool.tla)
  unsent,                  \* caller: buffers waiting to be sent, oldest first
  buf_pkt,                 \* ghost: packet number written into a buffer
  buf_size,                \* pkt_buf->size
  produced,                \* ghost: packets the caller has made ready
  queued,                  \* ghost: packets the driver has posted
  wire,                    \* ghost: packet numbers the NIC sent, in order
  desync                   \* the bypass desync error()+exit(0) was hit

drv == <<txq_head_ptr, txq_tail_ptr, txq_clean_tail_ptr, cpl_tail_ptr,
         txq_virtual_addresses, txq_descriptors>>
nic == <<reg_txq_head, reg_cpl_tail, nic_txq_tail, nic_cpl_head>>
vars == <<drv, nic, cpl_descriptors, pool, unsent, buf_pkt, buf_size,
          produced, queued, wire, desync>>

Pool == INSTANCE Mempool

Slots == 0 .. Size - 1

PtrDist(a, b) == (a - b) % PtrMod
HwDist(a, b)  == (a - b) % HwMod

Desc == [buf : Pool!Bufs \cup {NULL}, len : Nat]
Cpl  == [len : Nat, index : Nat]

-----------------------------------------------------------------------------
(* mqnic_process_tx_cq.                                                    *)
Peek(t) == cpl_descriptors[t % Size].len # 0

\* Completions the while loop consumes: it runs while the peek sees one
\* and done < budget.
\* Mutation: the loop never runs (a budget of 0).
MutReapNone(t, done) == done

RECURSIVE Reap(_, _)
Reap(t, done) ==
  IF Peek(t) /\ done < ReapBudget THEN Reap(t + 1, done + 1) ELSE done

\* A reaped completion gets its bypass sentinel back (cpl->len = 0).
\* Mutation: the sentinel is not restored.
MutConsumeKeepLen(rec) == rec

ConsumeCpl(rec) == [rec EXCEPT !.len = 0]

\* The slots after the reap: each reaped slot is emptied
\* (txq_virtual_addresses[txq_index] = NULL).
\* Mutation: the reaped slot is left pointing at the freed buffer.
MutUnpostedKeep(virt, taken) == virt

Unposted(virt, taken) == [i \in Slots |-> IF i \in taken THEN NULL ELSE virt[i]]

\* txq_clean_tail_ptr walks over emptied slots up to txq_tail_ptr; it stops
\* at a live slot, which is the desync.
RECURSIVE CleanWalk(_, _, _)
CleanWalk(p, tail, virt) ==
  IF p = tail \/ virt[p % Size] # NULL THEN p
  ELSE CleanWalk((p + 1) % PtrMod, tail, virt)

\* mqnic_is_tx_ring_full, unsigned; the enqueue loop posts up to n buffers
\* and stops at the first check that finds the ring full.
\* Mutation: the ring counted full only past full_size.
RECURSIVE MutEnqueuedOverfill(_, _, _)
MutEnqueuedOverfill(head, clean, n) ==
  IF n = 0 \/ PtrDist(head, clean) > FullSize THEN 0
  ELSE 1 + MutEnqueuedOverfill((head + 1) % PtrMod, clean, n - 1)

RECURSIVE Enqueued(_, _, _)
Enqueued(head, clean, n) ==
  IF n = 0 \/ PtrDist(head, clean) >= FullSize THEN 0
  ELSE 1 + Enqueued((head + 1) % PtrMod, clean, n - 1)

\* mqnic_tx_cq_write_tail_ptr: the CQ tail register gets cpl_tail_ptr & hw_ptr_mask.
\* Mutation: the mask is dropped.
MutCqTailRegNoMask(t) == t

CqTailReg(t) == t % HwMod

\* The head register value written once after the enqueue loop.
\* Mutation: the register written with the head from before the loop.
MutHeadRegBeforeLoop(h) == txq_head_ptr % HwMod

HeadReg(h) == h % HwMod

\* The buffers if_send_tx frees after the call: the first `sent` of the batch.
\* Mutation: the whole batch freed, including what back-pressure refused.
MutAppFreedAll(sent) ==
  SubSeq(unsent, 1, IF TxBatchSize < Len(unsent) THEN TxBatchSize ELSE Len(unsent))

AppFreed(sent) == SubSeq(unsent, 1, sent)

\* The pool after one call: the reaped buffers are freed, the sent ones
\* retained by the enqueue loop and then freed by the caller.
\* Mutation: the caller frees its buffers before the driver takes its
\* reference (pkt_buf_free ahead of ixy_tx_batch).
MutFreeBeforeRetain(p, reaped, sent, freed) ==
  FoldLeft(Pool!AfterRetain, Pool!AfterFreeAll(Pool!AfterFreeAll(p, reaped), freed), sent)

SendPool(p, reaped, sent, freed) ==
  Pool!AfterFreeAll(FoldLeft(Pool!AfterRetain, Pool!AfterFreeAll(p, reaped), sent), freed)

-----------------------------------------------------------------------------
Init ==
  /\ txq_head_ptr = 0 /\ txq_tail_ptr = 0 /\ txq_clean_tail_ptr = 0
  /\ cpl_tail_ptr = 0
  /\ txq_virtual_addresses = [i \in Slots |-> NULL]
  /\ txq_descriptors = [i \in Slots |-> [buf |-> NULL, len |-> 0]]
  /\ cpl_descriptors = [i \in Slots |-> [len |-> 0, index |-> 0]]
  /\ reg_txq_head = 0 /\ reg_cpl_tail = 0
  /\ nic_txq_tail = 0 /\ nic_cpl_head = 0
  /\ pool = Pool!InitPool
  /\ unsent = <<>>
  /\ buf_pkt = [b \in Pool!Bufs |-> 0]
  /\ buf_size = [b \in Pool!Bufs |-> 0]
  /\ produced = 0 /\ queued = 0 /\ wire = <<>>
  /\ desync = FALSE

\* The caller obtains a buffer (pkt_buf_alloc, ref_count 1), writes the
\* next packet into it and queues it for sending.
CallerProduce ==
  /\ ~desync
  /\ produced < MaxPkts
  /\ pool.stack # <<>>
  /\ \E len \in Lens :
       LET b == Head(pool.stack)
       IN  /\ pool' = Pool!AfterAlloc(pool, 1)
           /\ unsent' = Append(unsent, b)
           /\ buf_pkt' = [buf_pkt EXCEPT ![b] = produced + 1]
           /\ buf_size' = [buf_size EXCEPT ![b] = len]
  /\ produced' = produced + 1
  /\ UNCHANGED <<drv, nic, cpl_descriptors, queued, wire, desync>>

\* Step 1 of mqnic_tx_batch, mqnic_process_tx_cq: the completions reaped,
\* the ring slots they name, txq_tail_ptr advanced by their number, the
\* slots emptied and the clean walk over them.
TxDone  == Reap(cpl_tail_ptr, 0)
TxIx(j) == cpl_descriptors[(cpl_tail_ptr + j) % Size].index % Size
TxTail  == (txq_tail_ptr + TxDone) % PtrMod
TxVirt  == Unposted(txq_virtual_addresses, {TxIx(j) : j \in 0 .. TxDone - 1})
TxClean == CleanWalk(txq_clean_tail_ptr, TxTail, TxVirt)

\* The number of the n buffers offered that mqnic_tx_batch returns as sent:
\* none after the desync exit, else what the enqueue loop posts.
TxSent(n) == IF TxClean # TxTail THEN 0 ELSE Enqueued(txq_head_ptr, TxClean, n)

\* mqnic_tx_batch on the oldest n unsent buffers, followed by the caller's
\* pkt_buf_free on each buffer the driver accepted.
mqnic_tx_batch(n) ==
  /\ LET done    == TxDone
         Cs(j)   == (cpl_tail_ptr + j) % Size
         reaped  == [j \in 1 .. done |-> txq_virtual_addresses[TxIx(j - 1)]]
         Used    == {Cs(j) : j \in 0 .. done - 1}
         cqtail  == (cpl_tail_ptr + done) % PtrMod
         txtail  == TxTail
         virt1   == TxVirt
         clean   == TxClean
         \* step 2: the enqueue loop
         sent    == TxSent(n)
         bufs    == SubSeq(unsent, 1, sent)
         Post(i) == {j \in 0 .. sent - 1 : (txq_head_ptr + j) % Size = i}
         At(i)   == bufs[(CHOOSE j \in Post(i) : TRUE) + 1]
         head    == (txq_head_ptr + sent) % PtrMod
     IN
     /\ cpl_descriptors' = [c \in Slots |-> IF c \in Used
                                            THEN ConsumeCpl(cpl_descriptors[c])
                                            ELSE cpl_descriptors[c]]
     /\ cpl_tail_ptr' = cqtail
     /\ reg_cpl_tail' = CqTailReg(cqtail)
     /\ txq_tail_ptr' = txtail
     /\ IF clean # txtail
        THEN \* error("Error TX queue ...") and exit(0): the process ends here
             /\ desync' = TRUE
             /\ txq_virtual_addresses' = virt1
             /\ pool' = Pool!AfterFreeAll(pool, reaped)
             /\ UNCHANGED <<txq_head_ptr, txq_clean_tail_ptr, txq_descriptors,
                            reg_txq_head, unsent, queued>>
        ELSE /\ desync' = FALSE
             /\ txq_clean_tail_ptr' = clean
             /\ txq_virtual_addresses' =
                  [i \in Slots |-> IF Post(i) = {} THEN virt1[i] ELSE At(i)]
             /\ txq_descriptors' =
                  [i \in Slots |-> IF Post(i) = {} THEN txq_descriptors[i]
                                  ELSE [buf |-> At(i), len |-> buf_size[At(i)]]]
             /\ txq_head_ptr' = head
             /\ reg_txq_head' = HeadReg(head)
             /\ pool' = SendPool(pool, reaped, bufs, AppFreed(sent))
             /\ unsent' = SubSeq(unsent, sent + 1, Len(unsent))
             /\ queued' = queued + sent
  /\ UNCHANGED <<nic_txq_tail, nic_cpl_head, buf_pkt, buf_size, produced, wire>>

\* if_send_tx, called on every turn of the polling loop: it returns at once
\* unless TX_BATCH_SIZE buffers wait, and otherwise sends the oldest
\* min(TX_BATCH_SIZE, unsent) of them.  After the desync exit nothing runs.
SendTx ==
  /\ ~desync
  /\ IF Len(unsent) < TxBatchSize
     THEN UNCHANGED vars
     ELSE mqnic_tx_batch(IF TxBatchSize < Len(unsent) THEN TxBatchSize ELSE Len(unsent))

\* The NIC sends the buffer of the descriptor at its tail and publishes a
\* completion naming that slot.
NicTxPacket ==
  /\ HwDist(reg_txq_head, nic_txq_tail) # 0
  /\ HwDist(nic_cpl_head, reg_cpl_tail) < Size
  /\ LET d == txq_descriptors[nic_txq_tail % Size]
     IN  /\ wire' = Append(wire, buf_pkt[d.buf])
         /\ cpl_descriptors' = [cpl_descriptors EXCEPT ![nic_cpl_head % Size] =
                                  [len |-> d.len, index |-> nic_txq_tail % Size]]
  /\ nic_txq_tail' = (nic_txq_tail + 1) % HwMod
  /\ nic_cpl_head' = (nic_cpl_head + 1) % HwMod
  /\ UNCHANGED <<drv, reg_txq_head, reg_cpl_tail, pool, unsent, buf_pkt,
                 buf_size, produced, queued, desync>>

Next == CallerProduce \/ SendTx \/ NicTxPacket

\* The polling thread calls if_send_tx on every turn of its loop, the NIC
\* sends whatever is posted, and the caller keeps producing while it has
\* packets and buffers.
Fairness == WF_vars(CallerProduce) /\ WF_vars(SendTx) /\ WF_vars(NicTxPacket)

Spec == Init /\ [][Next]_vars
FairSpec == Spec /\ Fairness

-----------------------------------------------------------------------------
(***************************************************************************)
(* Properties.                                                             *)
(***************************************************************************)
TypeOK ==
  /\ {txq_head_ptr, txq_tail_ptr, txq_clean_tail_ptr, cpl_tail_ptr} \subseteq 0 .. PtrMod - 1
  /\ txq_virtual_addresses \in [Slots -> Pool!Bufs \cup {NULL}]
  /\ txq_descriptors \in [Slots -> Desc]
  /\ cpl_descriptors \in [Slots -> Cpl]
  /\ {reg_txq_head, reg_cpl_tail, nic_txq_tail, nic_cpl_head} \subseteq 0 .. HwMod - 1
  /\ pool \in Pool!PoolType
  /\ unsent \in Seq(Pool!Bufs)
  /\ buf_pkt \in [Pool!Bufs -> 0 .. MaxPkts]
  /\ buf_size \in [Pool!Bufs -> Nat]
  /\ produced \in 0 .. MaxPkts /\ queued \in 0 .. MaxPkts
  /\ wire \in Seq(0 .. MaxPkts)
  /\ desync \in BOOLEAN

Window(lo, d) == {(lo + j) % Size : j \in 0 .. d - 1}

(* Spec 3, invariant 4 and spec 8, property 1: between calls the ring      *)
(* holds at most full_size buffers, txq_tail_ptr and txq_clean_tail_ptr    *)
(* agree, and a slot holds a buffer exactly when it lies between the clean *)
(* tail and the head: the enqueue loop never posts over a slot whose       *)
(* completion has not been reaped and the reap leaves no live slot behind. *)
TxRingOccupancy ==
  LET d == PtrDist(txq_head_ptr, txq_clean_tail_ptr)
  IN  /\ d =< FullSize
      /\ txq_tail_ptr = txq_clean_tail_ptr
      /\ \A i \in Slots :
           txq_virtual_addresses[i] # NULL <=> i \in Window(txq_clean_tail_ptr, d)

(* Spec 6: the bypass desync (a live slot met by the clean walk, after     *)
(* which the process exits) never happens: the reap's count of completions *)
(* is exactly the number of slots the NIC is done with, in ring order.     *)
NoTxDesync == ~desync

(* Spec 4.1 and 4.5: a buffer's ref_count is the number of its owners (the *)
(* caller's unsent list and the ring), it is on the free list exactly when *)
(* nobody owns it, and never twice.  The caller's pkt_buf_free after       *)
(* mqnic_tx_batch must not return a posted buffer to the pool.             *)
Owners(b) ==
  Len(SelectSeq(unsent, LAMBDA x : x = b))
    + Cardinality({i \in Slots : txq_virtual_addresses[i] = b})

TxBufferConservation ==
  \A b \in Pool!Bufs :
    /\ pool.ref[b] = Owners(b)
    /\ Len(SelectSeq(pool.stack, LAMBDA x : x = b)) = IF Owners(b) = 0 THEN 1 ELSE 0

(* The NIC only sends what the driver posted: every descriptor between the *)
(* NIC's tail and the head register names the buffer the driver keeps in  *)
(* that slot, with that buffer's size, and the buffer is not free.         *)
NicReadsPosted ==
  LET d == HwDist(reg_txq_head, nic_txq_tail)
  IN  /\ d =< FullSize
      /\ \A i \in Window(nic_txq_tail, d) :
           LET b == txq_descriptors[i].buf
           IN  /\ b # NULL /\ b = txq_virtual_addresses[i]
               /\ txq_descriptors[i].len = buf_size[b]
               /\ b \notin Pool!FreeBufs(pool)

\* The abstract transmit queue this one implements.
Fifo == INSTANCE PacketFifo WITH arrived <- queued, out <- wire

(* Refinement: the NIC puts on the wire exactly the packets the driver     *)
(* accepted, in order, each once (no buffer is reused before its packet   *)
(* left), and every accepted packet is eventually sent.                    *)
TxFifoRefinement == Fifo!Spec

(* Liveness: every packet the caller makes ready is eventually accepted by *)
(* mqnic_tx_batch: back-pressure only lasts until the reap frees slots.   *)
AllQueued == <>(queued = MaxPkts)
=============================================================================
