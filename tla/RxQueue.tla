------------------------------ MODULE RxQueue ------------------------------
(***************************************************************************)
(* One receive queue of the mqnic userspace driver (mqnic.c) and the NIC   *)
(* receive engine on the other side of its two rings.                      *)
(*                                                                         *)
(* Driver side (the polling thread that owns the queue):                   *)
(*   - bring-up: start_rxq_cpl_queue refills the ring and reads the NIC's  *)
(*     tail pointer once (mqnic_rx_read_tail_ptr);                         *)
(*   - mqnic_rx_batch_hints: refill (mqnic_refill_rx_buffers), then drain  *)
(*     the completion ring with the bypass peek on cpl.len, defer the CQ   *)
(*     tail write until more than RXCQ_TAIL_UPDATE_BATCH completions were  *)
(*     consumed, advance rxq_tail_ptr by the number harvested and walk     *)
(*     rxq_clean_tail_ptr over emptied slots.                              *)
(* The call is two steps: the refill publishes descriptors with the head   *)
(* register write, and the NIC may consume them before the drain reads the *)
(* completion ring.  The drain itself is one step: the NIC only writes     *)
(* completion slots the drain has not reached, so any interleaving of NIC  *)
(* steps with the drain loop is equivalent to one where they happen before *)
(* or after it.                                                            *)
(*                                                                         *)
(* NIC side (hardware, modelled from spec sections 2, 3 and 5): it takes   *)
(* the descriptor at its tail when the head register says one is posted    *)
(* and its view of the completion ring (the CQ tail register) has room,    *)
(* DMAs the packet into the posted buffer and publishes a completion whose *)
(* len is non-zero.                                                        *)
(*                                                                         *)
(* The caller owns harvested buffers until it frees them.                  *)
(***************************************************************************)
EXTENDS Integers, Sequences, FiniteSets, SequencesExt

CONSTANTS
  Size,         \* NUM_RX_QUEUE_ENTRIES = NUM_CPL_QUEUE_ENTRIES (256)
  PtrMod,       \* 2^32: the driver's ring counters are uint32_t
  HwMod,        \* hw_ptr_mask + 1 (2^16): width of the NIC's ring pointers
  RefillMin,    \* refill only when at least this many slots miss (8)
  TailBatch,    \* RXCQ_TAIL_UPDATE_BATCH (32)
  BypassBatch,  \* RXCQ_BYPASS_BATCH (0)
  BatchN,       \* num_bufs the caller passes to mqnic_rx_batch_hints
  NumBufs,      \* entries of the queue's mempool
  BufSize,      \* mempool->buf_size
  Lens,         \* completion lengths the NIC writes
  Hashes,       \* rx_hash values the NIC writes (0: no hint)
  MaxPkts,      \* packets the NIC accepts in one behaviour
  EarlyTraffic, \* may the NIC accept a packet before bring-up read its tail?
  NULL

ASSUME Size > 1 /\ PtrMod % Size = 0 /\ HwMod % Size = 0 /\ HwMod =< PtrMod
ASSUME BatchN + BypassBatch =< Size /\ NULL \notin Nat

VARIABLES
  phase,                   \* where the owning thread is: boot, booting, idle, polling
  rxq_head_ptr, rxq_tail_ptr, rxq_clean_tail_ptr,
  cpl_tail_ptr, accumulated_cq_updates,
  rxq_virtual_addresses,   \* slot -> buffer handed to the NIC, or NULL
  rxq_descriptors,         \* slot -> buffer whose address the descriptor holds
  cpl_descriptors,         \* slot -> completion record
  reg_rxq_head,            \* MQNIC_QUEUE_HEAD_PTR_REG as the NIC sees it
  reg_cpl_tail,            \* MQNIC_CPL_QUEUE_TAIL_PTR_REG as the NIC sees it
  nic_rxq_tail,            \* NIC: next descriptor it consumes
  nic_cpl_head,            \* NIC: next completion slot it writes
  pool,                    \* the queue's mempool (Mempool.tla)
  held,                    \* buffers harvested and not yet freed, oldest first
  buf_pkt,                 \* ghost: packet number the NIC DMAed into a buffer
  buf_size,                \* pkt_buf->size
  accepted,                \* ghost: packets the NIC has accepted
  delivered,               \* ghost: packet numbers handed to the caller, in order
  hints                    \* nic_hints[] filled by the last call with if_hint

drv == <<phase, rxq_head_ptr, rxq_tail_ptr, rxq_clean_tail_ptr, cpl_tail_ptr,
         accumulated_cq_updates, rxq_virtual_addresses, rxq_descriptors>>
nic == <<reg_rxq_head, reg_cpl_tail, nic_rxq_tail, nic_cpl_head>>
vars == <<drv, nic, cpl_descriptors, pool, held, buf_pkt, buf_size,
          accepted, delivered, hints>>

Pool == INSTANCE Mempool

Slots == 0 .. Size - 1

\* Unsigned distance a - b of the driver's 32-bit counters and the NIC's pointers.
PtrDist(a, b) == (a - b) % PtrMod

HwDist(a, b)  == (a - b) % HwMod

Cpl == [len : Nat, index : Nat, rx_hash : Nat, pkt : Nat]
ZeroCpl == [len |-> 0, index |-> 0, rx_hash |-> 0, pkt |-> 0]

\* The nic_hints entry the drain decodes from a non-zero rx_hash:
\* (h & 0xff0) >> 4 and (h & 0xffff0000) >> 16, the bits 4..11 and 16..31
\* of the 32-bit h, taken here with \div and %.
\* Mutation: the app id is masked but not shifted down.
MutHintOfNoShift(h) == [hint_app_id  |-> ((h \div 16) % 256) * 16,
                        hint_content |-> (h \div 65536) % 65536]

HintOf(h) == [hint_app_id  |-> (h \div 16) % 256,
              hint_content |-> (h \div 65536) % 65536]

\* HintOf of every rx_hash the NIC may write, decoded once.
HintTable == [h \in Hashes |-> HintOf(h)]

-----------------------------------------------------------------------------
(* mqnic_refill_rx_buffers: fill every missing slot from the mempool when  *)
(* at least RefillMin are missing, stop at the first failed allocation,    *)
(* and publish rxq_head_ptr with one head register write.                  *)
\* Mutation: one slot too many counted as missing.
MutMissingPlusOne == (Size + 1 - PtrDist(rxq_head_ptr, rxq_clean_tail_ptr)) % PtrMod

Missing == (Size - PtrDist(rxq_head_ptr, rxq_clean_tail_ptr)) % PtrMod

RefillCount ==
  IF Len(pool.stack) < Missing THEN Len(pool.stack) ELSE Missing

\* The loop both fills share: post n buffers from the pool at rxq_head_ptr
\* (mqnic_prepare_rx_desc, rxq_head_ptr++), then write the head register.
\* A slot posted twice keeps the later buffer.
PostBuffers(n) ==
  LET new    == Pool!AllocTop(pool, n)
      Hits(i) == {j \in 1 .. n : (rxq_head_ptr + j - 1) % Size = i}
      Posted(i) == CHOOSE j \in Hits(i) : \A k \in Hits(i) : k =< j
      Fill(f) == [i \in Slots |-> IF Hits(i) = {} THEN f[i] ELSE new[Posted(i)]]
  IN  /\ rxq_virtual_addresses' = Fill(rxq_virtual_addresses)
      /\ rxq_descriptors' = Fill(rxq_descriptors)
      /\ pool' = Pool!AfterAlloc(pool, n)
      /\ rxq_head_ptr' = (rxq_head_ptr + n) % PtrMod
      /\ reg_rxq_head' = (rxq_head_ptr + n) % HwMod

mqnic_refill_rx_buffers ==
  IF Missing < RefillMin
  THEN UNCHANGED <<rxq_head_ptr, rxq_virtual_addresses, rxq_descriptors,
                   pool, reg_rxq_head>>
  ELSE PostBuffers(RefillCount)

-----------------------------------------------------------------------------
(* The drain loop of mqnic_rx_batch_hints.  Peek(t) is the bypass read of   *)
(* the completion RXCQ_BYPASS_BATCH slots ahead of counter t; Drained is    *)
(* the number of completions the while loop consumes.                      *)
\* Mutations: the bypass read ignores the sentinel, or looks one slot
\* further than RXCQ_BYPASS_BATCH.
MutPeekAlways(t) == TRUE
MutPeekAhead(t)  == cpl_descriptors[(t + BypassBatch + 1) % Size].len # 0

Peek(t) == cpl_descriptors[(t + BypassBatch) % Size].len # 0

\* Mutation: the loop never counts next_batch down, so after one
\* successful peek it keeps consuming unchecked slots.
RECURSIVE MutDrainNoCountdown(_, _, _, _, _)
MutDrainNoCountdown(t, if_next, next_batch, n, num_bufs) ==
  IF if_next /\ n < num_bufs
  THEN IF next_batch # 0
       THEN MutDrainNoCountdown(t + 1, TRUE, next_batch, n + 1, num_bufs)
       ELSE MutDrainNoCountdown(t + 1, Peek(t + 1), BypassBatch, n + 1, num_bufs)
  ELSE n

RECURSIVE Drain(_, _, _, _, _)
Drain(t, if_next, next_batch, n, num_bufs) ==
  IF if_next /\ n < num_bufs
  THEN IF next_batch # 0
       THEN Drain(t + 1, TRUE, next_batch - 1, n + 1, num_bufs)
       ELSE Drain(t + 1, Peek(t + 1), BypassBatch, n + 1, num_bufs)
  ELSE n

Drained(num_bufs) == Drain(cpl_tail_ptr, Peek(cpl_tail_ptr), BypassBatch, 0, num_bufs)

\* rxq_clean_tail_ptr walks over emptied slots up to rxq_tail_ptr.
RECURSIVE CleanWalk(_, _, _)
CleanWalk(p, tail, virt) ==
  IF p = tail \/ virt[p % Size] # NULL THEN p
  ELSE CleanWalk((p + 1) % PtrMod, tail, virt)

\* A consumed completion gets its bypass sentinel back (cpl->len = 0).
\* Mutation: the sentinel is not restored.
MutConsumeKeepLen(rec) == rec

ConsumeCpl(rec) == [rec EXCEPT !.len = 0]

\* The CQ tail register is written once more than RXCQ_TAIL_UPDATE_BATCH
\* completions were consumed since the last write.
\* Mutation: the batch compared against the ring size instead.
MutCqTailDueLate(acc) == acc > Size

CqTailDue(acc) == acc > TailBatch

\* mqnic_rx_read_tail_ptr: catch the counter up with the NIC's tail.
mqnic_rx_read_tail_ptr ==
  rxq_tail_ptr' = (rxq_tail_ptr + HwDist(nic_rxq_tail, rxq_tail_ptr)) % PtrMod

-----------------------------------------------------------------------------
Init ==
  /\ phase = "boot"
  /\ rxq_head_ptr = 0 /\ rxq_tail_ptr = 0 /\ rxq_clean_tail_ptr = 0
  /\ cpl_tail_ptr = 0 /\ accumulated_cq_updates = 0
  /\ rxq_virtual_addresses = [i \in Slots |-> NULL]
  /\ rxq_descriptors = [i \in Slots |-> NULL]
  /\ cpl_descriptors = [i \in Slots |-> ZeroCpl]
  /\ reg_rxq_head = 0 /\ reg_cpl_tail = 0
  /\ nic_rxq_tail = 0 /\ nic_cpl_head = 0
  /\ pool = Pool!InitPool
  /\ held = <<>>
  /\ buf_pkt = [b \in Pool!Bufs |-> 0]
  /\ buf_size = [b \in Pool!Bufs |-> 0]
  /\ accepted = 0 /\ delivered = <<>> /\ hints = <<>>

\* start_rxq_cpl_queue: activate the rings and refill them ...
StartRxqRefill ==
  /\ phase = "boot" /\ phase' = "booting"
  /\ mqnic_refill_rx_buffers
  /\ UNCHANGED <<rxq_tail_ptr, rxq_clean_tail_ptr, cpl_tail_ptr,
                 accumulated_cq_updates, cpl_descriptors, reg_cpl_tail,
                 nic_rxq_tail, nic_cpl_head, held, buf_pkt, buf_size,
                 accepted, delivered, hints>>

\* ... then read the NIC's rx tail pointer once.
StartRxqReadTail ==
  /\ phase = "booting" /\ phase' = "idle"
  /\ mqnic_rx_read_tail_ptr
  /\ UNCHANGED <<rxq_head_ptr, rxq_clean_tail_ptr, cpl_tail_ptr,
                 accumulated_cq_updates, rxq_virtual_addresses, rxq_descriptors,
                 cpl_descriptors, nic, pool, held, buf_pkt, buf_size,
                 accepted, delivered, hints>>

\* mqnic_rx_batch_hints, first step: the refill.
RxRefill ==
  /\ phase = "idle" /\ phase' = "polling"
  /\ mqnic_refill_rx_buffers
  /\ UNCHANGED <<rxq_tail_ptr, rxq_clean_tail_ptr, cpl_tail_ptr,
                 accumulated_cq_updates, cpl_descriptors, reg_cpl_tail,
                 nic_rxq_tail, nic_cpl_head, held, buf_pkt, buf_size,
                 accepted, delivered, hints>>

\* mqnic_fill_rx_buffers(queue, num): post num buffers from the pool,
\* stopping at the first failed allocation, and write the head register.
\* Unlike the refill it never looks at the room left in the ring.  No
\* code in the repository calls it, so no run's Next includes it.
RxFill(num) ==
  /\ phase = "idle"
  /\ PostBuffers(IF Len(pool.stack) < num THEN Len(pool.stack) ELSE num)
  /\ UNCHANGED <<phase, rxq_tail_ptr, rxq_clean_tail_ptr, cpl_tail_ptr,
                 accumulated_cq_updates, cpl_descriptors, reg_cpl_tail,
                 nic_rxq_tail, nic_cpl_head, held, buf_pkt, buf_size,
                 accepted, delivered, hints>>

\* mqnic_rx_batch_hints, second step: drain, CQ tail, rx tail, clean walk,
\* for a caller passing num_bufs.
RxDrainOf(num_bufs, if_hint) ==
  LET k       == Drained(num_bufs)
      Cs(j)   == (cpl_tail_ptr + j) % Size                 \* j-th consumed slot
      Ix(j)   == cpl_descriptors[Cs(j)].index % Size       \* its rx ring slot
      Buf(j)  == rxq_virtual_addresses[Ix(j)]
      Taken   == {Ix(j) : j \in 0 .. k - 1}
      Used    == {Cs(j) : j \in 0 .. k - 1}
      got     == [j \in 1 .. k |-> Buf(j - 1)]
      tail    == (cpl_tail_ptr + k) % PtrMod
      acc     == accumulated_cq_updates + k
      virt    == [i \in Slots |-> IF i \in Taken THEN NULL ELSE rxq_virtual_addresses[i]]
      rxtail  == (rxq_tail_ptr + k) % PtrMod
      hashes  == SelectSeq([j \in 1 .. k |-> cpl_descriptors[Cs(j - 1)].rx_hash],
                           LAMBDA h : h # 0)
  IN
  /\ phase = "polling" /\ phase' = "idle"
  /\ held' = held \o got
  /\ delivered' = delivered \o [j \in 1 .. k |-> buf_pkt[got[j]]]
  /\ buf_size' = [b \in Pool!Bufs |->
                   IF \E j \in 0 .. k - 1 : Buf(j) = b
                   THEN cpl_descriptors[Cs(CHOOSE j \in 0 .. k - 1 : Buf(j) = b)].len
                   ELSE buf_size[b]]
  /\ rxq_virtual_addresses' = virt
  /\ cpl_descriptors' = [c \in Slots |-> IF c \in Used
                                         THEN ConsumeCpl(cpl_descriptors[c])
                                         ELSE cpl_descriptors[c]]
  /\ hints' = IF if_hint THEN [j \in 1 .. Len(hashes) |-> HintTable[hashes[j]]] ELSE hints
  /\ cpl_tail_ptr' = tail
  /\ IF k # 0 /\ CqTailDue(acc)
     THEN /\ reg_cpl_tail' = tail % HwMod
          /\ accumulated_cq_updates' = 0
     ELSE /\ accumulated_cq_updates' = IF k # 0 THEN acc ELSE accumulated_cq_updates
          /\ UNCHANGED reg_cpl_tail
  /\ rxq_tail_ptr' = rxtail
  /\ rxq_clean_tail_ptr' = CleanWalk(rxq_clean_tail_ptr, rxtail, virt)
  /\ UNCHANGED <<rxq_head_ptr, rxq_descriptors, reg_rxq_head, nic_rxq_tail,
                 nic_cpl_head, pool, buf_pkt, accepted>>

\* mqnic_rx_batch: the drain without hints (if_hint 0, hints NULL), the
\* entry the Rust wrapper ixy_rx_batch_ uses.
RxBatch == RxDrainOf(BatchN, FALSE)

\* mqnic_rx_batch_hints called with if_hint set, as ixy-throughput does.
RxBatchHints == RxDrainOf(BatchN, TRUE)

RxDrain == RxBatch \/ RxBatchHints

\* The NIC receives a packet into the descriptor at its tail and publishes
\* its completion (len last, so a non-zero len means the record is complete).
NicRxPacket ==
  /\ accepted < MaxPkts
  /\ phase # "booting" \/ EarlyTraffic
  /\ HwDist(reg_rxq_head, nic_rxq_tail) # 0
  /\ HwDist(nic_cpl_head, reg_cpl_tail) < Size
  /\ \E len \in Lens, h \in Hashes :
       LET b == rxq_descriptors[nic_rxq_tail % Size]
       IN  /\ buf_pkt' = [buf_pkt EXCEPT ![b] = accepted + 1]
           /\ cpl_descriptors' = [cpl_descriptors EXCEPT ![nic_cpl_head % Size] =
                 [len |-> len, index |-> nic_rxq_tail % Size, rx_hash |-> h,
                  pkt |-> accepted + 1]]
  /\ nic_rxq_tail' = (nic_rxq_tail + 1) % HwMod
  /\ nic_cpl_head' = (nic_cpl_head + 1) % HwMod
  /\ accepted' = accepted + 1
  /\ UNCHANGED <<drv, reg_rxq_head, reg_cpl_tail, pool, held, buf_size,
                 delivered, hints>>

\* The caller frees the oldest buffer it holds (pkt_buf_free); the ghost
\* packet number of a free buffer is forgotten.
CallerFree ==
  /\ held # <<>>
  /\ held' = Tail(held)
  /\ pool' = Pool!AfterFree(pool, Head(held))
  /\ buf_pkt' = [buf_pkt EXCEPT ![Head(held)] = 0]
  /\ UNCHANGED <<drv, nic, cpl_descriptors, buf_size, accepted, delivered, hints>>

Next ==
  \/ StartRxqRefill \/ StartRxqReadTail
  \/ RxRefill \/ RxDrain
  \/ NicRxPacket
  \/ CallerFree

\* The polling thread runs its loop forever, the NIC engine takes a packet
\* whenever one is offered and it has a descriptor and completion room, and
\* the caller eventually frees what it harvested.
Fairness ==
  /\ WF_vars(StartRxqRefill) /\ WF_vars(StartRxqReadTail)
  /\ WF_vars(RxRefill) /\ WF_vars(RxDrain)
  /\ WF_vars(NicRxPacket) /\ WF_vars(CallerFree)

Spec == Init /\ [][Next]_vars
FairSpec == Spec /\ Fairness

-----------------------------------------------------------------------------
(***************************************************************************)
(* Properties.                                                             *)
(***************************************************************************)
TypeOK ==
  /\ phase \in {"boot", "booting", "idle", "polling"}
  /\ {rxq_head_ptr, rxq_tail_ptr, rxq_clean_tail_ptr, cpl_tail_ptr} \subseteq 0 .. PtrMod - 1
  /\ accumulated_cq_updates \in Nat
  /\ rxq_virtual_addresses \in [Slots -> Pool!Bufs \cup {NULL}]
  /\ rxq_descriptors \in [Slots -> Pool!Bufs \cup {NULL}]
  /\ cpl_descriptors \in [Slots -> Cpl]
  /\ {reg_rxq_head, reg_cpl_tail, nic_rxq_tail, nic_cpl_head} \subseteq 0 .. HwMod - 1
  /\ pool \in Pool!PoolType
  /\ held \in Seq(Pool!Bufs)
  /\ buf_pkt \in [Pool!Bufs -> 0 .. MaxPkts]
  /\ buf_size \in [Pool!Bufs -> Nat]
  /\ accepted \in 0 .. MaxPkts
  /\ delivered \in Seq(1 .. MaxPkts)
  /\ hints \in Seq([hint_app_id : Nat, hint_content : Nat])

\* Slots between counter lo and lo + d, ring-indexed.
Window(lo, d) == {(lo + j) % Size : j \in 0 .. d - 1}

(* Spec 3, invariants 2-3 and spec 8, properties 1-2: rxq_head_ptr -        *)
(* rxq_clean_tail_ptr never exceeds the ring (the uint32 arithmetic of     *)
(* mqnic_refill_rx_buffers depends on it), and a slot holds a buffer       *)
(* exactly when it lies between rxq_clean_tail_ptr and rxq_head_ptr: the   *)
(* refill never posts over a live slot and the drain plus the clean walk   *)
(* never leave a harvested slot behind the clean tail.                     *)
RingOccupancy ==
  LET d == PtrDist(rxq_head_ptr, rxq_clean_tail_ptr)
  IN  /\ d =< Size
      /\ \A i \in Slots :
           rxq_virtual_addresses[i] # NULL <=> i \in Window(rxq_clean_tail_ptr, d)

(* Spec 8, property 3: every mempool buffer is in exactly one place, on    *)
(* the free list (once, with ref_count 0), in one rx ring slot, or with    *)
(* the caller.  A refill overwriting a slot leaks a buffer; a double       *)
(* harvest or free puts one in two places.                                 *)
Places(b) ==
  Len(SelectSeq(pool.stack, LAMBDA x : x = b))
    + Cardinality({i \in Slots : rxq_virtual_addresses[i] = b})
    + Len(SelectSeq(held, LAMBDA x : x = b))

BufferConservation ==
  \A b \in Pool!Bufs :
    /\ Places(b) = 1
    /\ pool.ref[b] = 0 <=> b \in Pool!FreeBufs(pool)

(* Every descriptor the NIC may still consume (between its tail and the    *)
(* head register the driver wrote) points at the buffer the driver keeps   *)
(* for that slot, and that buffer is neither free nor with the caller: the *)
(* NIC never DMAs into memory the driver has given away.                   *)
NicDmaSafe ==
  LET d == HwDist(reg_rxq_head, nic_rxq_tail)
  IN  /\ d =< Size
      /\ \A i \in Window(nic_rxq_tail, d) :
           LET b == rxq_descriptors[i]
           IN  /\ b # NULL /\ b = rxq_virtual_addresses[i]
               /\ b \notin ToSet(held) /\ b \notin Pool!FreeBufs(pool)

(* Spec 3, invariant 5 and spec 8, property 4: the completions the NIC has *)
(* published and the driver has not consumed are exactly the slots with a  *)
(* non-zero len (the bypass sentinel is restored on every consumed slot    *)
(* and the NIC, judging room by the lagging CQ tail register, never        *)
(* overwrites a pending one), and each pending completion still names the  *)
(* slot whose buffer holds its packet.                                     *)
CompletionsIntact ==
  LET d == HwDist(nic_cpl_head, cpl_tail_ptr % HwMod)
  IN  /\ d =< Size
      /\ \A c \in Slots : cpl_descriptors[c].len # 0 <=> c \in Window(cpl_tail_ptr, d)
      /\ \A c \in Window(cpl_tail_ptr, d) :
           LET b == rxq_virtual_addresses[cpl_descriptors[c].index % Size]
           IN  b # NULL /\ buf_pkt[b] = cpl_descriptors[c].pkt

(* Spec 4.4: a harvested buffer's size never exceeds the buffer (the       *)
(* clamp GETMIN(cpl->len, buf_size) is the contract).                     *)
HarvestedSizeFits == \A b \in ToSet(held) : buf_size[b] =< BufSize

(* Spec 8, property 5: one call never reports more hints than the caller's *)
(* nic_hints array (HintCap entries) holds.                                *)
HintsFit(cap) == Len(hints) =< cap

(* Liveness: the NIC is never stalled for good; every packet offered is    *)
(* eventually accepted.  It fails if the deferred CQ tail write leaves the *)
(* NIC's view of the completion ring full after the driver consumed it, or *)
(* if refill hysteresis leaves the NIC without descriptors.                *)
AllAccepted == <>(accepted = MaxPkts)

\* The abstract receive queue this one implements.
Fifo == INSTANCE PacketFifo WITH arrived <- accepted, out <- delivered

(* Refinement: the packets handed to the caller are exactly the packets    *)
(* the NIC accepted, in order, each once, and every accepted packet is     *)
(* eventually handed over.                                                 *)
FifoRefinement == Fifo!Spec
=============================================================================
