----------------------------- MODULE QueuePair -----------------------------
(***************************************************************************)
(* One polling thread of ixy-throughput.c (poll_queue) with the RX and TX  *)
(* queue it owns and the one mempool both draw on: the buffers the RX      *)
(* queue harvests are worked on in place and sent back out by the TX       *)
(* queue, whose reaping frees them to the RX queue's mempool.              *)
(*                                                                         *)
(* The thread starts once bring-up (start_rxq_cpl_queue) is done and then  *)
(* loops forever over if_pull_rx, if_do_work, if_send_feedback and         *)
(* if_send_tx; `pc` says which it runs next.  if_pull_rx is two steps, the *)
(* refill and the drain of mqnic_rx_batch_hints, between which the NIC     *)
(* may act; every other call is one step.  The NIC's receive and transmit  *)
(* engines run beside the thread.                                          *)
(*                                                                         *)
(* The RX and TX queues are the modules RxQueue and TxQueue, instantiated  *)
(* on this module's variables.  The caller side of each is mapped onto the *)
(* worker ring: `held` is the content of bufs[] from ring_tail up to       *)
(* ring_head, oldest first; its first unsent_work_count entries are the    *)
(* buffers worked on and not yet sent, which are TxQueue's `unsent`.       *)
(*                                                                         *)
(* The thread also talks to the NIC through its queue's CPU message        *)
(* register (module Mailbox): it registers apps 1 and 2 when it starts,    *)
(* sends feedback for the buffers it worked on, and answers every hint the *)
(* drain decodes with mqnic_rearm_monitor.  The NIC takes the words in the *)
(* order written and acts on their decoding.                               *)
(***************************************************************************)
EXTENDS Integers, Sequences, FiniteSets, SequencesExt

CONSTANTS
  RxSize, TxSize,   \* NUM_RX_QUEUE_ENTRIES, NUM_TX_QUEUE_ENTRIES (256)
  FullSize,         \* the TX queue's full_size (size >> 1)
  PtrMod, HwMod,    \* 2^32 and hw_ptr_mask + 1
  RefillMin,        \* refill hysteresis (8)
  TailBatch,        \* RXCQ_TAIL_UPDATE_BATCH (32)
  BypassBatch,      \* RXCQ_BYPASS_BATCH (0)
  ReapBudget,       \* the TX reap budget (64)
  NumBufs,          \* entries of the RX queue's mempool
  BufSize,          \* mempool->buf_size
  Lens,             \* frame lengths the NIC receives
  MaxPkts,          \* packets the NIC receives in one behaviour
  RingSize,         \* RING_SIZE of the worker ring (128)
  RxBatchSize,      \* RX_BATCH_SIZE (16)
  TxBatchSize,      \* TX_BATCH_SIZE (1)
  PullSlack,        \* the 4 of if_pull_rx's TX_BATCH_SIZE + 4
  FeedbackBatch,    \* FEEDBACK_BATCH_SIZE (1)
  Hashes,           \* rx_hash values the NIC writes (0: no hint)
  MaxPending,       \* words in flight to the CPU message register
  NULL

VARIABLES
  pc,                                         \* next call of the thread
  rxq_head_ptr, rxq_tail_ptr, rxq_clean_tail_ptr, rx_cpl_tail_ptr,
  accumulated_cq_updates, rxq_virtual_addresses, rxq_descriptors,
  rx_cpl_descriptors, reg_rxq_head, rx_reg_cpl_tail, nic_rxq_tail, rx_nic_cpl_head,
  hints,                                      \* worker_ring.hints
  txq_head_ptr, txq_tail_ptr, txq_clean_tail_ptr, tx_cpl_tail_ptr,
  txq_virtual_addresses, txq_descriptors, tx_cpl_descriptors,
  reg_txq_head, tx_reg_cpl_tail, nic_txq_tail, tx_nic_cpl_head, desync,
  pool, buf_pkt, buf_size,                    \* the shared mempool and buffers
  held,                                       \* bufs[ring_tail .. ring_head)
  ring_head, work_head, ring_tail, ring_empty_slots,
  unprocessed_work_count, unsent_work_count, unsent_feedback_count,
  hint_i,                                     \* i of if_pull_rx's rearm loop
  mbox,                                       \* the CPU message register (Mailbox)
  accepted, delivered, queued, wire,          \* ghosts: packets in, harvested, posted, sent
  pkt_hash,                                   \* ghost: rx_hash the NIC gave each packet
  hinted,                                     \* ghost: apps of the hinted packets harvested
  rearmed,                                    \* ghost: apps the NIC was told to rearm
  credited                                    \* ghost: update_count the NIC decoded

rx  == <<rxq_head_ptr, rxq_tail_ptr, rxq_clean_tail_ptr, rx_cpl_tail_ptr,
         accumulated_cq_updates, rxq_virtual_addresses, rxq_descriptors,
         rx_cpl_descriptors, reg_rxq_head, rx_reg_cpl_tail, nic_rxq_tail,
         rx_nic_cpl_head, hints>>
tx  == <<txq_head_ptr, txq_tail_ptr, txq_clean_tail_ptr, tx_cpl_tail_ptr,
         txq_virtual_addresses, txq_descriptors, tx_cpl_descriptors,
         reg_txq_head, tx_reg_cpl_tail, nic_txq_tail, tx_nic_cpl_head, desync>>
app == <<held, ring_head, work_head, ring_tail, ring_empty_slots,
         unprocessed_work_count, unsent_work_count, unsent_feedback_count>>
ctl == <<hint_i, mbox, pkt_hash, hinted, rearmed, credited>>
vars == <<pc, rx, tx, app, ctl, pool, buf_pkt, buf_size, accepted, delivered, queued, wire>>

Min2(a, b) == IF a < b THEN a ELSE b

\* if_pull_rx's rx_batch_size: RX_BATCH_SIZE cut at the end of bufs[] and
\* at the free slots of the worker ring.
RxBatch == Min2(Min2(RxBatchSize, RingSize - ring_head), ring_empty_slots)

\* RxQueue's thread phase, read off the thread's program counter.
Phase == CASE pc = "boot"    -> "boot"
           [] pc = "booting" -> "booting"
           [] pc = "drain"   -> "polling"
           [] OTHER          -> "idle"

Rx == INSTANCE RxQueue WITH
        Size <- RxSize, BatchN <- RxBatchSize, EarlyTraffic <- FALSE,
        phase <- Phase, cpl_tail_ptr <- rx_cpl_tail_ptr,
        cpl_descriptors <- rx_cpl_descriptors, reg_cpl_tail <- rx_reg_cpl_tail,
        nic_cpl_head <- rx_nic_cpl_head

Tx == INSTANCE TxQueue WITH
        Size <- TxSize, cpl_tail_ptr <- tx_cpl_tail_ptr,
        cpl_descriptors <- tx_cpl_descriptors, reg_cpl_tail <- tx_reg_cpl_tail,
        nic_cpl_head <- tx_nic_cpl_head,
        unsent <- SubSeq(held, 1, unsent_work_count), produced <- 0

Pool == INSTANCE Mempool

\* The queue's CPU message register; the thread only ever writes the words
\* of register_app(1, 0), register_app(2, 0), mqnic_rx_feedback(1, n) and
\* mqnic_rearm_monitor(app).
Mb == INSTANCE Mailbox WITH
        Apps <- {1, 2}, Prios <- {0}, Counts <- {FeedbackBatch}, PortNums <- {},
        EpochLogs <- {}, Threshs <- {}, AfterInitRx <- FALSE, port_mbox <- <<>>

\* The app a hint names, by the rx_hash layout of spec 4.4:
\* app_id = (rx_hash >> 4) & 0xff.
NicHintApp(h) == (h \div 16) % 256

-----------------------------------------------------------------------------
Init ==
  /\ pc = "boot"
  /\ rxq_head_ptr = 0 /\ rxq_tail_ptr = 0 /\ rxq_clean_tail_ptr = 0
  /\ rx_cpl_tail_ptr = 0 /\ accumulated_cq_updates = 0
  /\ rxq_virtual_addresses = [i \in 0 .. RxSize - 1 |-> NULL]
  /\ rxq_descriptors = [i \in 0 .. RxSize - 1 |-> NULL]
  /\ rx_cpl_descriptors = [i \in 0 .. RxSize - 1 |-> Rx!ZeroCpl]
  /\ reg_rxq_head = 0 /\ rx_reg_cpl_tail = 0 /\ nic_rxq_tail = 0 /\ rx_nic_cpl_head = 0
  /\ hints = <<>>
  /\ txq_head_ptr = 0 /\ txq_tail_ptr = 0 /\ txq_clean_tail_ptr = 0
  /\ tx_cpl_tail_ptr = 0
  /\ txq_virtual_addresses = [i \in 0 .. TxSize - 1 |-> NULL]
  /\ txq_descriptors = [i \in 0 .. TxSize - 1 |-> [buf |-> NULL, len |-> 0]]
  /\ tx_cpl_descriptors = [i \in 0 .. TxSize - 1 |-> [len |-> 0, index |-> 0]]
  /\ reg_txq_head = 0 /\ tx_reg_cpl_tail = 0 /\ nic_txq_tail = 0 /\ tx_nic_cpl_head = 0
  /\ desync = FALSE
  /\ pool = Pool!InitPool
  /\ buf_pkt = [b \in Pool!Bufs |-> 0]
  /\ buf_size = [b \in Pool!Bufs |-> 0]
  \* init_worker_ring
  /\ held = <<>>
  /\ ring_head = 0 /\ work_head = 0 /\ ring_tail = 0 /\ ring_empty_slots = RingSize
  /\ unprocessed_work_count = 0 /\ unsent_work_count = 0 /\ unsent_feedback_count = 0
  /\ hint_i = 0 /\ mbox = <<>>
  /\ accepted = 0 /\ delivered = <<>> /\ queued = 0 /\ wire = <<>>
  /\ pkt_hash = [p \in 1 .. MaxPkts |-> 0]
  /\ hinted = <<>> /\ rearmed = <<>> /\ credited = 0

\* Bring-up of the RX queue by mqnic_init, before the thread starts.
StartRxqRefill ==
  /\ pc = "boot" /\ pc' = "booting"
  /\ Rx!StartRxqRefill
  /\ UNCHANGED <<tx, app, ctl, queued, wire>>

StartRxqReadTail ==
  /\ pc = "booting" /\ pc' = "register"
  /\ Rx!StartRxqReadTail
  /\ UNCHANGED <<tx, app, ctl, queued, wire>>

\* The words the thread writes, computed once: register_app(queue_id, 1, 0)
\* and (2, 0), mqnic_rx_feedback(queue_id, 1, FEEDBACK_BATCH_SIZE), and
\* mqnic_rearm_monitor(queue_id, a) for the app a of each hint; and the
\* NIC scheduler's decode of each.
RegisterWords == <<Mb!RegisterWord(1, 0), Mb!RegisterWord(2, 0)>>
FeedbackWords == <<Mb!FeedbackWord(1, FeedbackBatch)>>
HintApps      == {Rx!HintOf(h).hint_app_id : h \in Hashes \ {0}}
RearmWords    == [a \in HintApps |-> <<Mb!MonitorWord(a, 6), Mb!MonitorWord(a, 7)>>]
NicDecode     == [w \in ToSet(RegisterWords) \cup ToSet(FeedbackWords)
                       \cup UNION {ToSet(RearmWords[a]) : a \in HintApps}
                   |-> Mb!DecodeCpuMsg(w)]

\* poll_queue, before its loop: register_app(queue_id, 1, 0) and
\* register_app(queue_id, 2, 0).
RegisterApps ==
  /\ pc = "register" /\ pc' = "pull"
  /\ Mb!Write(RegisterWords,
              <<[kind |-> "register", app |-> 1, prio |-> 0, sub_op |-> 5, class |-> 1],
                [kind |-> "register", app |-> 2, prio |-> 0, sub_op |-> 5, class |-> 1]>>)
  /\ UNCHANGED <<rx, tx, app, hint_i, pkt_hash, hinted, rearmed, credited, pool,
                 buf_pkt, buf_size, accepted, delivered, queued, wire>>

\* if_pull_rx returns at once while the worker ring holds TX_BATCH_SIZE + 4
\* buffers or more, or has fewer than RX_BATCH_SIZE free slots.
PullGate ==
  /\ RingSize - ring_empty_slots < TxBatchSize + PullSlack
  /\ ring_empty_slots >= RxBatchSize

PullSkip ==
  /\ ~desync /\ pc = "pull" /\ ~PullGate /\ pc' = "work"
  /\ UNCHANGED <<rx, tx, app, ctl, pool, buf_pkt, buf_size, accepted, delivered,
                 queued, wire>>

\* if_pull_rx calls mqnic_rx_batch_hints(bufs + ring_head, rx_batch_size):
\* first its refill ...
PullRefill ==
  /\ ~desync /\ pc = "pull" /\ PullGate /\ pc' = "drain"
  /\ Rx!RxRefill
  /\ UNCHANGED <<tx, app, ctl, queued, wire>>

\* ... then its drain (with if_hint = 1), after which if_pull_rx books the
\* num_rx buffers in the worker ring and answers the hints.  The booking
\* (lines 124-144) comes after the rearm loop in the code; it touches only
\* the worker ring, which nothing else reads, so it is done here at once.
PullDrain ==
  /\ pc = "drain" /\ pc' \in {"rearm", "work"}
  /\ LET num_rx == Rx!Drained(RxBatch)
     IN  /\ ring_head' = (ring_head + num_rx) % RingSize
         /\ unprocessed_work_count' = unprocessed_work_count + num_rx
         /\ ring_empty_slots' = ring_empty_slots - num_rx
  /\ Rx!RxDrainOf(RxBatch, TRUE)
  /\ pc' = IF hints' # <<>> THEN "rearm" ELSE "work"      \* hint_count > 0
  /\ hint_i' = 0
  /\ LET new == SubSeq(delivered', Len(delivered) + 1, Len(delivered'))
         hinted_pkts == SelectSeq(new, LAMBDA p : pkt_hash[p] # 0)
     IN  hinted' = hinted \o [j \in 1 .. Len(hinted_pkts) |-> NicHintApp(pkt_hash[hinted_pkts[j]])]
  /\ UNCHANGED <<tx, work_head, ring_tail, unsent_work_count, unsent_feedback_count,
                 mbox, pkt_hash, rearmed, credited, queued, wire>>

\* One turn of if_pull_rx's loop over the hints: mqnic_rearm_monitor for
\* hints[i].hint_app_id, two writes (reset, then rearm).
RearmHint ==
  /\ ~desync /\ pc = "rearm"
  /\ LET a == hints[hint_i + 1].hint_app_id
     IN  Mb!Write(RearmWords[a],
                  <<[kind |-> "monitor_reset", app |-> a], [kind |-> "monitor_rearm", app |-> a]>>)
  /\ hint_i' = hint_i + 1
  /\ pc' = IF hint_i + 1 < Len(hints) THEN "rearm" ELSE "work"
  /\ UNCHANGED <<rx, tx, app, pkt_hash, hinted, rearmed, credited, pool, buf_pkt,
                 buf_size, accepted, delivered, queued, wire>>

\* if_do_work: the oldest unprocessed buffer is worked on and becomes unsent.
DoWork ==
  /\ ~desync /\ pc = "work" /\ pc' = "feedback"
  /\ IF unprocessed_work_count > 0
     THEN /\ unprocessed_work_count' = unprocessed_work_count - 1
          /\ unsent_feedback_count' = unsent_feedback_count + 1
          /\ unsent_work_count' = unsent_work_count + 1
          /\ work_head' = (work_head + 1) % RingSize
     ELSE UNCHANGED <<unprocessed_work_count, unsent_feedback_count,
                      unsent_work_count, work_head>>
  /\ UNCHANGED <<rx, tx, ctl, pool, buf_pkt, buf_size, held, ring_head, ring_tail,
                 ring_empty_slots, accepted, delivered, queued, wire>>

\* if_send_feedback sends feedback once FEEDBACK_BATCH_SIZE buffers were
\* worked on.  Mutation: it waits for more than that.
MutFeedbackDueStrict == unsent_feedback_count > FeedbackBatch

FeedbackDue == unsent_feedback_count >= FeedbackBatch

\* if_send_feedback: mqnic_rx_feedback(queue_id, 1, FEEDBACK_BATCH_SIZE).
SendFeedback ==
  /\ ~desync /\ pc = "feedback" /\ pc' = "tx"
  /\ IF FeedbackDue
     THEN /\ Mb!Write(FeedbackWords,
                      <<[kind |-> "feedback", app |-> 1, count |-> FeedbackBatch]>>)
          /\ unsent_feedback_count' = unsent_feedback_count - FeedbackBatch
     ELSE UNCHANGED <<mbox, unsent_feedback_count>>
  /\ UNCHANGED <<rx, tx, pool, buf_pkt, buf_size, held, ring_head, work_head,
                 ring_tail, ring_empty_slots, unprocessed_work_count,
                 unsent_work_count, hint_i, pkt_hash, hinted, rearmed, credited,
                 accepted, delivered, queued, wire>>

\* if_send_tx returns at once unless TX_BATCH_SIZE buffers are unsent.
\* Mutation: it waits for more than TX_BATCH_SIZE.
MutTxDueStrict == unsent_work_count > TxBatchSize

TxDue == unsent_work_count >= TxBatchSize

\* Otherwise it sends the oldest tx_batch_size unsent buffers (cut at the
\* end of bufs[]), frees the ones the driver took and books them out of the
\* worker ring.
\* Mutations: ring_tail advanced without the wrap at RING_SIZE; the free
\* slots and ring_tail booked by the batch offered instead of the number sent.
MutSendTxBatchNoWrap(n) ==
  LET sent == Tx!TxSent(n)
  IN  /\ held' = SubSeq(held, sent + 1, Len(held))
      /\ unsent_work_count' = unsent_work_count - sent
      /\ ring_empty_slots' = ring_empty_slots + sent
      /\ ring_tail' = ring_tail + sent
      /\ Tx!mqnic_tx_batch(n)

MutSendTxBatchBooksOffer(n) ==
  LET sent == Tx!TxSent(n)
  IN  /\ held' = SubSeq(held, sent + 1, Len(held))
      /\ unsent_work_count' = unsent_work_count - sent
      /\ ring_empty_slots' = ring_empty_slots + n
      /\ ring_tail' = (ring_tail + n) % RingSize
      /\ Tx!mqnic_tx_batch(n)

SendTxBatch(n) ==
  LET sent == Tx!TxSent(n)
  IN  /\ held' = SubSeq(held, sent + 1, Len(held))
      /\ unsent_work_count' = unsent_work_count - sent
      /\ ring_empty_slots' = ring_empty_slots + sent
      /\ ring_tail' = (ring_tail + sent) % RingSize
      /\ Tx!mqnic_tx_batch(n)

SendTx ==
  /\ ~desync /\ pc = "tx" /\ pc' = "pull"
  /\ IF ~TxDue
     THEN UNCHANGED <<tx, pool, app, queued>>
     ELSE SendTxBatch(Min2(Min2(TxBatchSize, RingSize - ring_tail), unsent_work_count))
  /\ UNCHANGED <<rx, ring_head, work_head, unprocessed_work_count,
                 unsent_feedback_count, ctl, buf_pkt, buf_size, accepted, delivered, wire>>

\* The NIC receives a packet; its rx_hash is one of Hashes.
NicRxPacket ==
  /\ UNCHANGED <<pc, tx, app, queued, wire, hint_i, mbox, hinted, rearmed, credited>>
  /\ Rx!NicRxPacket
  /\ pkt_hash' = [pkt_hash EXCEPT ![accepted'] =
                     rx_cpl_descriptors'[rx_nic_cpl_head % RxSize].rx_hash]

NicTxPacket ==
  /\ UNCHANGED <<pc, rx, app, ctl, accepted, delivered>>
  /\ Tx!NicTxPacket

\* The NIC's scheduler takes the oldest word from the CPU message register
\* and acts on it as decoded: a rearm rearms the app's monitor, a feedback
\* credits the queue with update_count.
NicTakeCpuMsg ==
  /\ mbox # <<>>
  /\ LET m == NicDecode[Head(mbox).word]
     IN  /\ rearmed' = IF m.kind = "monitor_rearm" THEN Append(rearmed, m.app) ELSE rearmed
         /\ credited' = IF m.kind = "feedback" THEN credited + m.count ELSE credited
  /\ Mb!NicTakeCpuMsg
  /\ UNCHANGED <<pc, rx, tx, app, hint_i, pkt_hash, hinted, pool, buf_pkt, buf_size,
                 accepted, delivered, queued, wire>>

Thread == StartRxqRefill \/ StartRxqReadTail \/ RegisterApps \/ PullSkip \/ PullRefill
            \/ PullDrain \/ RearmHint \/ DoWork \/ SendFeedback \/ SendTx

Next == Thread \/ NicRxPacket \/ NicTxPacket \/ NicTakeCpuMsg

\* The thread loops forever on its core; the NIC engines move whatever is
\* posted to them, and its scheduler drains the message register.
Fairness == WF_vars(Thread) /\ WF_vars(NicRxPacket) /\ WF_vars(NicTxPacket)
              /\ WF_vars(NicTakeCpuMsg)

Spec == Init /\ [][Next]_vars
FairSpec == Spec /\ Fairness

-----------------------------------------------------------------------------
TypeOK ==
  /\ pc \in {"boot", "booting", "register", "pull", "drain", "rearm", "work", "feedback", "tx"}
  /\ Rx!TypeOK
  /\ txq_virtual_addresses \in [0 .. TxSize - 1 -> Pool!Bufs \cup {NULL}]
  /\ desync \in BOOLEAN
  /\ {ring_head, work_head, ring_tail} \subseteq 0 .. RingSize - 1
  /\ ring_empty_slots \in 0 .. RingSize
  /\ {unprocessed_work_count, unsent_work_count, unsent_feedback_count, credited} \subseteq Nat
  /\ queued \in 0 .. MaxPkts /\ wire \in Seq(1 .. MaxPkts)

\* Occurrences of buffer b in a sequence, and in a ring of slots.
InSeq(s, b)  == Len(SelectSeq(s, LAMBDA x : x = b))
InRing(r, b) == Cardinality({i \in DOMAIN r : r[i] = b})

(* The RX refill and the TX reap share one mempool.  Every buffer is in    *)
(* exactly one place: on the free list, posted in an RX ring slot, in the  *)
(* worker ring, or posted in a TX ring slot; and its ref_count is 0 on the *)
(* free list and 1 anywhere else.  It breaks if a buffer the TX NIC has    *)
(* still to send is freed (if_send_tx's pkt_buf_free, the reap) and the    *)
(* RX refill posts it for the NIC to overwrite, or if a buffer is leaked.  *)
SharedBufferConservation ==
  \A b \in Pool!Bufs :
    LET free == InSeq(pool.stack, b)
    IN  /\ free + InRing(rxq_virtual_addresses, b) + InSeq(held, b)
             + InRing(txq_virtual_addresses, b) = 1
        /\ pool.ref[b] = 1 - free

(* The worker ring's counters, kept by if_pull_rx, if_do_work and          *)
(* if_send_tx separately and wrapping at RING_SIZE, agree with the buffers *)
(* it holds: ring_empty_slots counts the free slots, ring_head and         *)
(* work_head sit the held and the unsent buffers past ring_tail, and       *)
(* unprocessed plus unsent buffers are all it holds.  if_send_tx must book *)
(* only the buffers the driver accepted, not the batch it offered.         *)
AppRingAccounting ==
  /\ Len(held) = RingSize - ring_empty_slots
  /\ Len(held) = unprocessed_work_count + unsent_work_count
  /\ ring_head = (ring_tail + Len(held)) % RingSize
  /\ work_head = (ring_tail + unsent_work_count) % RingSize

\* What the forwarding thread promises: a FIFO from the RX wire to the TX wire.
Fwd == INSTANCE PacketFifo WITH arrived <- accepted, out <- wire

(* Every packet the NIC receives is sent back out by the NIC, once, in the *)
(* order received, and eventually: the RX refill, the worker ring's pull   *)
(* gate, back-pressure on the TX ring and the reaping that returns TX      *)
(* buffers to the RX mempool never stall the thread for good.             *)
ForwardFifo == Fwd!Spec

(* Every rearm the NIC decodes names, in order, the app of a hint the      *)
(* thread harvested: mqnic_rx_batch_hints decodes hint_app_id from the     *)
(* rx_hash the NIC wrote, if_pull_rx answers each hint with                *)
(* mqnic_rearm_monitor, and that call packs the app into the reset and     *)
(* rearm words the NIC's scheduler decodes again.  It breaks if the        *)
(* driver's decode and the word's encode of app_id disagree, or a hint is  *)
(* answered twice or out of order.                                         *)
HintsRearmed == IsPrefix(rearmed, hinted)

(* Eventually every packet's feedback is credited to the queue and every   *)
(* hint harvested is rearmed at the NIC: if_send_feedback never holds      *)
(* back the last buffers worked on, and the rearm writes never stall the   *)
(* thread behind a full message register.                                  *)
AllAnswered == <>(credited = MaxPkts /\ rearmed = hinted)

====
