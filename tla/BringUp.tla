------------------------------ MODULE BringUp ------------------------------
(***************************************************************************)
(* The queue bring-up of mqnic_reset_and_init, called once by mqnic_init   *)
(* (ixy_init) before the application starts its polling threads:          *)
(*                                                                         *)
(*   init_tx, init_rx      for every queue: deactivate, program, reset     *)
(*                         the head and tail registers to 0                *)
(*   start_txq_cpl_queue   for every TX queue: activate                    *)
(*   start_rxq_cpl_queue   for every RX queue: activate, refill the ring   *)
(*                         (head register write), read the NIC tail        *)
(*   activate_hw_sche      enable the TX schedulers                        *)
(*   mqnic_port_set_rss_mask   configure the port's dispatch to the user   *)
(*                         queues                                          *)
(*                                                                         *)
(* Beside the driver the NIC dispatches packets to a user RX queue that is *)
(* active, has posted descriptors, and is targeted by the port's dispatch. *)
(* The driver never clears that dispatch configuration, so a driver        *)
(* started again over a NIC that an earlier run configured finds it set,   *)
(* with that run's queues still active.                                    *)
(*                                                                         *)
(* Each queue's geometry is computed as the driver computes it (ring size *)
(* by round_power of the configured entries, log sizes by log2_floor,      *)
(* descriptor block size from the stride) and written to the NIC's queue   *)
(* and completion-queue registers, kept here as records of the fields a    *)
(* register word packs.                                                    *)
(*                                                                         *)
(* Descriptor contents are RxQueue's business; here a queue's ring is only *)
(* posted or not, and the NIC's tail is the number of packets it took.     *)
(***************************************************************************)
EXTENDS Integers, Sequences, Bitwise

CONSTANTS
  NumQueues,      \* rx_queues = tx_queues of ixy_init
  RestartCases,   \* FALSE: a fresh NIC; TRUE: a NIC an earlier run set up
  MaxTaken,       \* packets the NIC takes from one queue in a behaviour
  EntryCases,     \* values of NUM_RX_QUEUE_ENTRIES / NUM_TX_QUEUE_ENTRIES
  DescBlockSize,  \* DESC_BLOCK_SIZE
  TxKernel,       \* MQNIC_TX_KERNEL_QUEUE_NUMBER
  RxKernel,       \* MQNIC_RX_KERNEL_QUEUE_NUMBER
  MinMempool      \* MQNIC_MIN_MEMPOOL_ENTRIES

Queues == 0 .. NumQueues - 1

DescSize == 16    \* MQNIC_DESC_SIZE

\* round_power: power = 1; while (x >>= 1) power <<= 1;
RECURSIVE RoundPowerLoop(_, _)
RoundPowerLoop(x, power) ==
  IF x \div 2 = 0 THEN power ELSE RoundPowerLoop(x \div 2, power * 2)

RoundPower(x) == RoundPowerLoop(x, 1)

\* log2_floor: uint32_t res = -1; while (x) { res++; x = x >> 1; }
\* res is kept as -1 for 0xFFFFFFFF, which TLC's integers cannot hold; its
\* first res++ wraps it to 0 either way, and log2_floor(0) returns it.
RECURSIVE Log2FloorLoop(_, _)
Log2FloorLoop(x, res) ==
  IF x = 0 THEN res ELSE Log2FloorLoop(x \div 2, res + 1)

\* Mutation: res starts at 0, one above the floor.
MutLog2Floor(x) == Log2FloorLoop(x, 0)

Log2Floor(x) == Log2FloorLoop(x, -1)

\* init_tx: the ring geometry of TX queue i, and the completion queue its
\* cpl_addr points at (MQNIC_TX_KERNEL_QUEUE_NUMBER blocks past the base).
TxGeometry(i, entries) ==
  LET size   == RoundPower(entries)
      stride == DescBlockSize * DescSize
      dbs    == stride \div DescSize
      logb   == IF dbs < 2 THEN 0 ELSE Log2Floor(dbs - 1) + 1
  IN  [size |-> size, full_size |-> size \div 2, size_mask |-> size - 1,
       stride |-> stride, log_desc_block_size |-> logb,
       desc_block_size |-> 2^logb, cpl_block |-> i + TxKernel]

\* init_rx: the ring geometry of RX queue i and the completion queue its
\* cpl_addr points at; start_rxq_cpl_queue sizes its mempool later.
RxGeometry(i, entries) ==
  LET size == RoundPower(entries)
  IN  [size |-> size, size_mask |-> size - 1, stride |-> DescSize, pool |-> 0,
       cpl_block |-> i + RxKernel]

\* start_rxq_cpl_queue: round_power(NUM_RX_QUEUE_ENTRIES * 2), at least
\* MQNIC_MIN_MEMPOOL_ENTRIES.
MempoolEntries(entries) ==
  LET m == RoundPower(entries * 2) IN IF m < MinMempool THEN MinMempool ELSE m

\* A queue or completion-queue register block: the ACTIVE_LOG_SIZE word
\* (active bit, log size, log descriptor block size << 8) and the
\* CPL_QUEUE_INDEX word.
Reg(active, log, blk, cpl) == [active |-> active, log |-> log, blk |-> blk, cpl |-> cpl]

VARIABLES
  step,            \* the loop or call of mqnic_reset_and_init that runs
  qi,              \* the loop index i
  rx_step,         \* the part of start_rxq_cpl_queue(i) that runs next
  ring_entries,    \* the build's NUM_RX/TX_QUEUE_ENTRIES
  tx_geo,          \* each TX queue's size, full_size, size_mask, stride, ...
  rx_geo,          \* each RX queue's size, size_mask, stride, mempool size
  tx_cpl_reg,      \* each TX completion queue's registers on the NIC
  txq_reg,         \* each TX queue's registers on the NIC
  rx_cpl_reg,      \* each RX completion queue's registers on the NIC
  rxq_reg,         \* each RX queue's registers on the NIC
  sched_on,        \* each TX queue's scheduler slot
  rx_posted,       \* the RX ring's head register is ahead of its tail
  rx_taken,        \* the NIC's RX tail: packets taken since it was reset
  rxq_tail_ptr,    \* the driver's rxq_tail_ptr after the bring-up read
  rx_tail_read,    \* start_rxq_cpl_queue(q) has read the tail
  port_dispatch    \* the port's user-queue dispatch is configured

geo  == <<ring_entries, tx_geo, rx_geo>>
regs == <<tx_cpl_reg, txq_reg, rx_cpl_reg, rxq_reg>>
vars == <<step, qi, rx_step, geo, regs, sched_on, rx_posted, rx_taken,
          rxq_tail_ptr, rx_tail_read, port_dispatch>>

\* The calls of mqnic_reset_and_init in the order it makes them.
\* Mutation: the port's dispatch is configured before the queues start.
MutPhasesRssFirst ==
  <<"init_tx", "init_rx", "rss", "start_tx", "start_rx", "sched", "done">>

Phases == <<"init_tx", "init_rx", "start_tx", "start_rx", "sched", "rss", "done">>

\* The call that follows s.
NextPhase(s) == Phases[(CHOOSE k \in 1 .. Len(Phases) - 1 : Phases[k] = s) + 1]

\* The end of one turn of a for (i = 0; i < num_queues; i++) loop.
\* Mutation: the loop index runs past the last queue.
MutAdvanceNoBound ==
  IF qi < NumQueues THEN /\ qi' = qi + 1 /\ UNCHANGED step
  ELSE /\ qi' = 0 /\ step' = NextPhase(step)

Advance ==
  IF qi + 1 < NumQueues THEN /\ qi' = qi + 1 /\ UNCHANGED step
  ELSE /\ qi' = 0 /\ step' = NextPhase(step)

\* The queue structs of a fresh ixy_init are zeroed; the NIC's registers
\* are idle, or hold what an earlier run of the same build programmed.
NoGeo == [size |-> 0, full_size |-> 0, size_mask |-> 0, stride |-> 0,
          log_desc_block_size |-> 0, desc_block_size |-> 0, cpl_block |-> 0]
Idle  == Reg(FALSE, 0, 0, 0)

Init ==
  /\ step = Phases[1] /\ qi = 0 /\ rx_step = "activate"
  /\ ring_entries \in [{"rx", "tx"} -> EntryCases]
  /\ tx_geo = [q \in Queues |-> NoGeo]
  /\ rx_geo = [q \in Queues |-> [size |-> 0, size_mask |-> 0, stride |-> 0, pool |-> 0,
                                  cpl_block |-> 0]]
  /\ \E earlier \in RestartCases :
       LET tg == TxGeometry(0, ring_entries.tx)
           rs == RoundPower(ring_entries.rx)
       IN
       /\ tx_cpl_reg = [q \in Queues |->
            IF earlier THEN Reg(TRUE, Log2Floor(tg.size), 0, 0) ELSE Idle]
       /\ txq_reg = [q \in Queues |->
            IF earlier THEN Reg(TRUE, Log2Floor(tg.size), tg.log_desc_block_size,
                                q + TxKernel)
                       ELSE Idle]
       /\ rx_cpl_reg = [q \in Queues |->
            IF earlier THEN Reg(TRUE, Log2Floor(rs), 0, 0) ELSE Idle]
       /\ rxq_reg = [q \in Queues |->
            IF earlier THEN Reg(TRUE, Log2Floor(rs), 0, q + RxKernel) ELSE Idle]
       /\ sched_on = [q \in Queues |-> earlier]
       /\ rx_posted = [q \in Queues |-> earlier]
       /\ port_dispatch = earlier
  /\ rx_taken = [q \in Queues |-> 0]
  /\ rxq_tail_ptr = [q \in Queues |-> 0]
  /\ rx_tail_read = [q \in Queues |-> FALSE]

\* init_tx, one queue: compute its geometry; deactivate its completion
\* queue, then give it its log size; deactivate the TX queue, bind it to
\* completion queue 0, then give it its log size and descriptor block.
InitTxq ==
  /\ step = "init_tx"
  /\ LET g == TxGeometry(qi, ring_entries.tx) IN
     /\ tx_geo' = [tx_geo EXCEPT ![qi] = g]
     /\ tx_cpl_reg' = [tx_cpl_reg EXCEPT ![qi] = Reg(FALSE, Log2Floor(g.size), 0, 0)]
     /\ txq_reg' = [txq_reg EXCEPT ![qi] =
                      Reg(FALSE, Log2Floor(g.size), g.log_desc_block_size, 0)]
  /\ Advance
  /\ UNCHANGED <<rx_step, ring_entries, rx_geo, rx_cpl_reg, rxq_reg, sched_on,
                 rx_posted, rx_taken, rxq_tail_ptr, rx_tail_read, port_dispatch>>

\* init_rx, one queue: compute its geometry, deactivate both register
\* blocks and give them their log size, zero the driver's pointers and
\* write 0 to the NIC's head and tail registers, so nothing is posted.
InitRxq ==
  /\ step = "init_rx"
  /\ LET g == RxGeometry(qi, ring_entries.rx) IN
     /\ rx_geo' = [rx_geo EXCEPT ![qi] = g]
     /\ rx_cpl_reg' = [rx_cpl_reg EXCEPT ![qi] = Reg(FALSE, Log2Floor(g.size), 0, 0)]
     /\ rxq_reg' = [rxq_reg EXCEPT ![qi] = Reg(FALSE, Log2Floor(g.size), 0, 0)]
  /\ rx_posted' = [rx_posted EXCEPT ![qi] = FALSE]
  /\ rx_taken' = [rx_taken EXCEPT ![qi] = 0]
  /\ Advance
  /\ UNCHANGED <<rx_step, ring_entries, tx_geo, tx_cpl_reg, txq_reg, sched_on,
                 rxq_tail_ptr, rx_tail_read, port_dispatch>>

\* start_txq_cpl_queue: activate the completion queue, bind the TX queue to
\* completion queue i + MQNIC_TX_KERNEL_QUEUE_NUMBER and activate it.
StartTxq ==
  /\ step = "start_tx"
  /\ LET g == tx_geo[qi] IN
     /\ tx_cpl_reg' = [tx_cpl_reg EXCEPT ![qi] = Reg(TRUE, Log2Floor(g.size), 0, 0)]
     /\ txq_reg' = [txq_reg EXCEPT ![qi] =
                      Reg(TRUE, Log2Floor(g.size), g.log_desc_block_size, qi + TxKernel)]
  /\ Advance
  /\ UNCHANGED <<rx_step, geo, rx_cpl_reg, rxq_reg, sched_on, rx_posted,
                 rx_taken, rxq_tail_ptr, rx_tail_read, port_dispatch>>

\* start_rxq_cpl_queue: size the queue's mempool, check the ring size is a
\* power of two, activate the completion queue, bind the RX queue to
\* completion queue i + MQNIC_RX_KERNEL_QUEUE_NUMBER and activate it ...
StartRxqActivate ==
  /\ step = "start_rx" /\ rx_step = "activate" /\ rx_step' = "refill"
  /\ LET g == rx_geo[qi] IN
     /\ (g.size & (g.size - 1)) = 0
     /\ rx_geo' = [rx_geo EXCEPT ![qi].pool = MempoolEntries(ring_entries.rx)]
     /\ rx_cpl_reg' = [rx_cpl_reg EXCEPT ![qi] = Reg(TRUE, Log2Floor(g.size), 0, 0)]
     /\ rxq_reg' = [rxq_reg EXCEPT ![qi] = Reg(TRUE, Log2Floor(g.size), 0, qi + RxKernel)]
  /\ UNCHANGED <<step, qi, ring_entries, tx_geo, tx_cpl_reg, txq_reg, sched_on,
                 rx_posted, rx_taken, rxq_tail_ptr, rx_tail_read, port_dispatch>>

\* ... refill the ring, ending with the head register write ...
StartRxqRefill ==
  /\ step = "start_rx" /\ rx_step = "refill" /\ rx_step' = "read_tail"
  /\ rx_posted' = [rx_posted EXCEPT ![qi] = TRUE]
  /\ UNCHANGED <<step, qi, geo, regs, sched_on, rx_taken, rxq_tail_ptr,
                 rx_tail_read, port_dispatch>>

\* ... and set rxq_tail_ptr from the NIC's tail (mqnic_rx_read_tail_ptr).
StartRxqReadTail ==
  /\ step = "start_rx" /\ rx_step = "read_tail" /\ rx_step' = "activate"
  /\ rxq_tail_ptr' = [rxq_tail_ptr EXCEPT ![qi] = rx_taken[qi]]
  /\ rx_tail_read' = [rx_tail_read EXCEPT ![qi] = TRUE]
  /\ Advance
  /\ UNCHANGED <<geo, regs, sched_on, rx_posted, rx_taken, port_dispatch>>

\* activate_hw_sche: enable the scheduler slot of every user TX queue.
ActivateHwSche ==
  /\ step = "sched" /\ step' = NextPhase(step)
  /\ sched_on' = [q \in Queues |-> TRUE]
  /\ UNCHANGED <<qi, rx_step, geo, regs, rx_posted, rx_taken, rxq_tail_ptr,
                 rx_tail_read, port_dispatch>>

\* mqnic_port_set_rss_mask: user queue offset, mask, IP and policy.
SetRssMask ==
  /\ step = "rss" /\ step' = NextPhase(step)
  /\ port_dispatch' = TRUE
  /\ UNCHANGED <<qi, rx_step, geo, regs, sched_on, rx_posted, rx_taken,
                 rxq_tail_ptr, rx_tail_read>>

\* The NIC dispatches a packet to a user RX queue and takes a descriptor.
NicTake(q) ==
  /\ port_dispatch /\ rxq_reg[q].active /\ rx_cpl_reg[q].active /\ rx_posted[q]
  /\ rx_taken[q] < MaxTaken
  /\ rx_taken' = [rx_taken EXCEPT ![q] = @ + 1]
  /\ UNCHANGED <<step, qi, rx_step, geo, regs, sched_on, rx_posted,
                 rxq_tail_ptr, rx_tail_read, port_dispatch>>

\* ixy_init has returned; the polling threads take over the queues.
Done == step = "done" /\ UNCHANGED vars

Next ==
  \/ InitTxq \/ InitRxq \/ StartTxq
  \/ StartRxqActivate \/ StartRxqRefill \/ StartRxqReadTail
  \/ ActivateHwSche \/ SetRssMask
  \/ \E q \in Queues : NicTake(q)
  \/ Done

Spec == Init /\ [][Next]_vars

-----------------------------------------------------------------------------
TypeOK ==
  /\ step \in {Phases[k] : k \in 1 .. Len(Phases)}
  /\ qi \in Queues
  /\ rx_step \in {"activate", "refill", "read_tail"}
  /\ ring_entries \in [{"rx", "tx"} -> EntryCases]
  /\ \A f \in {tx_cpl_reg, txq_reg, rx_cpl_reg, rxq_reg} :
       f \in [Queues -> [active : BOOLEAN, log : Int, blk : Nat, cpl : Nat]]
  /\ \A f \in {sched_on, rx_posted, rx_tail_read} : f \in [Queues -> BOOLEAN]
  /\ rx_taken \in [Queues -> 0 .. MaxTaken]
  /\ rxq_tail_ptr \in [Queues -> 0 .. MaxTaken]
  /\ port_dispatch \in BOOLEAN

\* The bring-up tail read of every RX queue returns the driver's own
\* rxq_tail_ptr, 0: the NIC takes nothing from a queue between the head
\* write of start_rxq_cpl_queue's refill and its tail read.  The drain
\* advances rxq_tail_ptr by what it harvests, so a packet taken in that
\* window is counted twice (RxQueue's rx_early_traffic run).
BringUpTailExact ==
  \A q \in Queues : rx_tail_read[q] => rxq_tail_ptr[q] = 0

\* Reference definitions: the largest power of two not above x, and the
\* exponent of a power of two, for rings the 16-bit hardware pointers
\* (hw_ptr_mask 0xFFFF) can index.
FloorPow2Ref(x) == CHOOSE p \in {2^k : k \in 0 .. 16} : p <= x /\ x < 2 * p
IsLogOf(l, n) == \E k \in 0 .. 16 : 2^k = n /\ l = k

PhaseIndex(s) == CHOOSE k \in 1 .. Len(Phases) : Phases[k] = s

\* The loop of mqnic_reset_and_init that starts a queue has passed queue q.
StartedTx(q) ==
  \/ PhaseIndex(step) > PhaseIndex("start_tx")
  \/ step = "start_tx" /\ q < qi
StartedRx(q) ==
  \/ PhaseIndex(step) > PhaseIndex("start_rx")
  \/ step = "start_rx" /\ (q < qi \/ (q = qi /\ rx_step # "activate"))

\* Every queue start_txq_cpl_queue / start_rxq_cpl_queue has activated
\* describes to the NIC exactly the ring init_tx / init_rx allocated: the
\* ring holds the largest power of two of entries not above the configured
\* count, size_mask is size - 1, both register blocks are active and
\* announce log2 of that size, the TX queue's descriptor block times the
\* descriptor size is the driver's stride, and each queue is bound to the
\* completion queue whose ring init_tx / init_rx programmed through its
\* cpl_addr.  round_power, log2_floor
\* and the block-size computation all feed into it.
ActivationAgrees ==
  /\ \A q \in Queues : StartedTx(q) =>
       LET g == tx_geo[q] IN
       /\ g.size = FloorPow2Ref(ring_entries.tx) /\ g.size_mask = g.size - 1
       /\ g.full_size = g.size \div 2
       /\ tx_cpl_reg[q].active /\ txq_reg[q].active
       /\ IsLogOf(tx_cpl_reg[q].log, g.size) /\ IsLogOf(txq_reg[q].log, g.size)
       /\ DescSize * 2^txq_reg[q].blk = g.stride
       /\ txq_reg[q].cpl = g.cpl_block
  /\ \A q \in Queues : StartedRx(q) =>
       LET g == rx_geo[q] IN
       /\ g.size = FloorPow2Ref(ring_entries.rx) /\ g.size_mask = g.size - 1
       /\ rx_cpl_reg[q].active /\ rxq_reg[q].active
       /\ IsLogOf(rx_cpl_reg[q].log, g.size) /\ IsLogOf(rxq_reg[q].log, g.size)
       /\ rxq_reg[q].cpl = g.cpl_block
=============================================================================
