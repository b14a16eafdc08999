# TLA+ models of the RingleaderNIC userspace driver

These modules model the mqnic userspace driver in `src/driver/src/driver/mqnic.c` and the throughput
application that drives it (`src/driver/src/app/ixy-throughput.c`). Each is written against the
lines that PROJECT.json's `map` names.

## The system

Application threads poll the NIC directly through BAR0 registers. Each core owns one RX queue and
one TX queue. Each queue is a descriptor ring plus a completion ring, shared by DMA with the NIC.

- **RX queue.**
  - `mqnic_refill_rx_buffers` posts free mempool buffers into the descriptor ring. It runs only
    once at least 8 slots are missing. It ends with one head-register write.
  - The NIC fills a posted buffer and writes a completion.
  - `mqnic_rx_batch_hints` finds completions by the *bypass* peek, a non-zero `len`, without
    reading the head register. It harvests the buffers and decodes hints from `rx_hash`.
  - It then restores the sentinel (`len = 0`).
  - It writes the CQ tail register only after more than `RXCQ_TAIL_UPDATE_BATCH` completions.
  - It advances `rxq_tail_ptr` by the number harvested (`IF_RXTX_BYPASS_REG`), then walks
    `rxq_clean_tail_ptr` over emptied slots.
- **TX queue.** `mqnic_tx_batch` works in two parts.
  - First it reaps completions (`mqnic_process_tx_cq`): the bypass peek, at most 64 per call.
    Each reaped buffer is freed and its slot emptied, and the CQ tail register is written.
  - Next, `txq_tail_ptr` advances by the number reaped. A clean walk follows, which calls
    `error()` and `exit(0)` if it meets a live slot.
  - Then it posts buffers until `head - clean_tail >= full_size`. It takes a reference on each
    one and writes the head register once.
  - The caller (`if_send_tx`) frees its own reference on every accepted buffer.
- **Mempool.** This is a LIFO free list with per-buffer reference counts, shared by RX and TX
  through the buffers the app forwards. It lives in ixy's `memory.c`, which is not in this
  repository, so it is modelled from spec section 4.2.
- **Control mailbox.** Each call packs a message into one 32-bit word.
  - Per-queue CPU message register: `register_app`, `deregister_app`, `mqnic_rx_feedback`,
    the two monitor rearms, and the dispatcher init word `17` of `init_rx`.
  - Port-wide `APP_CONFIG` register: `config_app_mat` and the port monitor calls.
  - The NIC decodes each word with the packing table of spec section 4.6.

## Modules

| Module | Models | State ↔ code |
|---|---|---|
| `Mempool` | pkt_buf_alloc / pkt_buf_free / ref_count++ | `stack` is the free list, top first; `ref` is `ref_count`. Its operators are pure functions from a pool to a pool, so a handler folds them over the buffers it touches. |
| `PacketFifo` | the abstract promise of a queue | Packets arrive in batches and leave, in arrival order, in batches. |
| `RxQueue` | `start_rxq_cpl_queue`, `mqnic_refill_rx_buffers`, `mqnic_prepare_rx_desc`, `mqnic_fill_rx_buffers`, `mqnic_rx_batch_hints`, `mqnic_rx_batch`, the NIC receive engine, the caller's frees | See below. |
| `TxQueue` | `mqnic_process_tx_cq`, `mqnic_tx_batch`, `mqnic_is_tx_ring_full`, `if_send_tx`, the NIC transmit engine | See below. |
| `Mailbox` | the eight control calls and the init word, plus the NIC decoder | See below. |
| `QueuePair` | one `poll_queue` thread of `ixy-throughput.c` with its RX queue, TX queue and the shared mempool | See below. |
| `BringUp` | `mqnic_reset_and_init`: `init_tx`, `init_rx`, `start_txq_cpl_queue`, `start_rxq_cpl_queue`, `activate_hw_sche`, `mqnic_port_set_rss_mask`, and the NIC's dispatch | See below. |
| `MCRxQueue`, `MCTxQueue`, `MCMailbox`, `MCQueuePair`, `MCBringUp` | model-checking instances | They hold the MC-only definitions that the cfgs use. |

- **`RxQueue` state and actions.**
  - Variables keep the code's names: `rxq_head_ptr`, `rxq_tail_ptr`, `rxq_clean_tail_ptr`,
    `cpl_tail_ptr`, `accumulated_cq_updates`, `rxq_virtual_addresses`, `cpl_descriptors`.
  - The NIC's view is `reg_rxq_head`, `reg_cpl_tail`, `nic_rxq_tail` and `nic_cpl_head`.
  - Bring-up is two actions, `StartRxqRefill` and `StartRxqReadTail`. A poll call is two actions,
    `RxRefill` and `RxDrain`, because the NIC can act between them.
  - The drain loop is the recursive operator `Drain`, with the `RXCQ_BYPASS_BATCH` peek-ahead.
    `RxDrain` is `RxBatch` (`mqnic_rx_batch`, no hints) or `RxBatchHints`.
  - `PostBuffers(n)` is the posting loop with `mqnic_prepare_rx_desc` and the head register
    write. The refill posts `min(missing, free buffers)` of them. `RxFill(num)` is
    `mqnic_fill_rx_buffers`, which posts `num` with no room check. Nothing in the repository
    calls it, so it is in no run's `Next` (see "Not checked by any run").
- **`TxQueue` state and actions.**
  - Variables are named as in `struct mqnic_tx_queue`.
  - `mqnic_tx_batch(n)` is one action. The NIC only touches slots the call does not, so its steps
    commute with the call's loops.
  - `SendTx` is `if_send_tx`. Its early return is a stutter, because the polling thread keeps
    calling it.
- **`Mailbox` state and actions.**
  - Each register is a queue of the words the NIC has not yet taken. Each word carries, as a
    ghost, the message its call meant to send.
  - Words are kept as two 16-bit halves so that `0xffff0000` and `0xf0000000` fit TLC's integers.

- **`QueuePair` state and actions.**
  - It instantiates `RxQueue` and `TxQueue` on its own variables (`Rx == INSTANCE RxQueue WITH ...`),
    so their actions are reused rather than rewritten. Both draw on one `pool`.
  - The worker ring keeps the code's names: `ring_head`, `work_head`, `ring_tail`,
    `ring_empty_slots`, `unprocessed_work_count`, `unsent_work_count`, `unsent_feedback_count`.
    `held` is the content of `bufs[]` from `ring_tail` to `ring_head`, oldest first. Its first
    `unsent_work_count` entries are TxQueue's `unsent`.
  - `pc` is the thread's place in the `while (true)` loop of `poll_queue`. The actions are
    `PullSkip`/`PullRefill`/`PullDrain` (`if_pull_rx`, whose call of `mqnic_rx_batch_hints` is
    split where the NIC can act), `RearmHint` (one turn of its loop over the hints), `DoWork`,
    `SendFeedback` and `SendTx`. Before them come the two bring-up steps of the queue's
    `start_rxq_cpl_queue` and `RegisterApps` (the two `register_app` calls of `poll_queue`).
  - `Mb == INSTANCE Mailbox` is the queue's CPU message register. `register_app`,
    `mqnic_rearm_monitor` and `mqnic_rx_feedback` write its words; `NicTakeCpuMsg` is the NIC's
    scheduler taking the oldest word and acting on its decode. The ghosts `pkt_hash` (the
    `rx_hash` the NIC gave each packet), `hinted` (the app each harvested hint names, read the
    NIC's way), `rearmed` and `credited` (what the NIC decoded) tie the two ends together.
  - `PullDrain` books the harvested buffers in the worker ring at once, although the code books
    them after the rearm loop: the booking touches only the worker ring, which nothing else
    reads, so the two orders give the same states.
  - The words are computed once (`RegisterWords`, `RearmWords`, `FeedbackWords`, `NicDecode`) and
    `HintOf` uses `\div` and `%` for the shifts and masks. Evaluated inside `ENABLED`, as weak
    fairness requires, the recursive `Bitwise` operators are too slow for TLC.
  - `Drained` and `RxDrainOf` take the caller's `num_bufs`, because the app passes its own
    `rx_batch_size`, a state expression. `TxSent(n)` is the number `mqnic_tx_batch` accepts, and
    `SendTxBatch` books it in the worker ring.
- **`BringUp` state and actions.**
  - `step` and `qi` are the loop of `mqnic_reset_and_init` that runs and its index. `rx_step`
    splits `start_rxq_cpl_queue` into activate, refill and tail read.
  - Per queue the state is what the dispatch and the NIC's view of the ring need: whether the
    RX ring has posted descriptors, the NIC's tail and the driver's `rxq_tail_ptr` after the read,
    the driver's ring geometry (`tx_geo`, `rx_geo`), and the NIC's queue and completion-queue
    registers (`txq_reg`, `tx_cpl_reg`, `rxq_reg`, `rx_cpl_reg`). A register is a record of the
    fields its words pack: the active bit, the log size, the log descriptor block size
    (`<< 8`) and the completion-queue index.
  - `RoundPower` and `Log2Floor` translate the loops of `round_power` and `log2_floor`
    (`mqnic.c:126-143`). `log2_floor`'s `uint32_t res = -1` is kept as -1, since TLC's
    integers are 32-bit signed. `TxGeometry`, `RxGeometry` and `MempoolEntries` are the size,
    stride, descriptor block and mempool computations of `init_tx`, `init_rx` and
    `start_rxq_cpl_queue`. `ring_entries` is `NUM_RX/TX_QUEUE_ENTRIES`, a parameter in the spec
    (256 in this build), chosen in `Init` from `EntryCases`.
  - `StartRxqActivate` has the power-of-two check of `start_rxq_cpl_queue` as its guard.
  - `port_dispatch` is the port configuration `mqnic_port_set_rss_mask` writes. `Init` starts
    from a fresh NIC or, where `RestartCases` allows, from one an earlier run left configured.

## Runs

| Run | What it checks | What it shows |
|---|---|---|
| `rx_main` | `TypeOK`, `RingOccupancy`, `BufferConservation`, `NicDmaSafe`, `CompletionsIntact`, `AllAccepted`, `FifoRefinement` | The ring never over-fills, and every buffer is in exactly one place: free, posted or held. The NIC never writes into a buffer the driver has released, and no completion is overwritten before it is consumed. The queue refines `PacketFifo`, and every offered packet is eventually accepted. |
| `rx_early_traffic` (violation) | `BufferConservation` | Code bug at `mqnic.c:197`: see Findings. |
| `rx_hints_capacity` (violation) | `MCHintsFit` | The hints array has no capacity check (`mqnic.c:880`). |
| `rx_len_clamp` (violation) | `HarvestedSizeFits` | The length clamp at `mqnic.c:896` is dead. |
| `tx_main` | `NoTxDesync`, `TypeOK`, `TxRingOccupancy`, `TxBufferConservation`, `NicReadsPosted`, `TxFifoRefinement`, `AllQueued` | The bypass reap and clean walk never reach the fatal desync. A slot is never reused before its completion is reaped. Reference counts match the owners (ring, caller, free list). The NIC only reads posted descriptors. Packets leave in order, and every packet is eventually queued. |
| `rx_bypass` | `RingOccupancy`, `BufferConservation`, `NicDmaSafe`, `CompletionsIntact`, `AllAccepted` | With `RXCQ_BYPASS_BATCH` 1 and batches of 3, the peek-ahead takes the unchecked slot of a pair only once the NIC wrote it. |
| `rx_bypass_tail` (violation) | `FifoRefinement` | With `RXCQ_BYPASS_BATCH` 1 and 5 packets, the last one is never harvested. |
| `qp_main` | `TypeOK`, `SharedBufferConservation`, `AppRingAccounting`, `HintsRearmed`, `ForwardFifo`, `AllAnswered` | A buffer is in exactly one place across the RX ring, the worker ring, the TX ring and the free list, and its reference count matches. The worker ring's counters and indexes agree across wrap and back-pressure. Every received packet is sent, in order (the composition refines `PacketFifo` from NIC receive to wire). The NIC rearms, in order, exactly the apps named by the hints the thread harvested, and eventually every worked buffer is credited back by feedback and every hint rearmed. |
| `bringup_fresh` | `TypeOK`, `BringUpTailExact`, `ActivationAgrees` | On a fresh NIC no bring-up tail read counts a packet, because the dispatch is configured after every queue is started. Every queue the driver has activated announces to the NIC the ring it allocated: log size, descriptor block times 16 equal to the stride, completion queue `i + KERNEL_QUEUE_NUMBER`, with the size checked against a reference "largest power of two not above the entries". |
| `bringup_restart` (violation) | `BringUpTailExact` | On a NIC an earlier run configured, a packet lands between refill and tail read. |
| `mbox_main` | `MailboxFaithful` | Every word decodes to the message meant, at the edges of every argument range that fits its field. |
| `mbox_app_width` (violation) | `MailboxFaithful` | app_id 260 is sent as app 4. |

Every property of a passing run has a mutant in PROJECT.json: a plausible bug in the mapped code
that TLC finds.

## Findings

- **Bring-up tail race (`mqnic.c:197`).**
  - `start_rxq_cpl_queue` writes the head register in the refill, then reads the NIC tail.
  - A packet received in between is counted by that read. Because the drain advances
    `rxq_tail_ptr` by what it harvests, the same packet is counted again.
  - `rxq_tail_ptr` then runs one ahead of what the NIC took. While the ring is stocked this is
    harmless: the clean walk stops at the first slot that still holds a buffer
    (`mqnic.c:951-953`).
  - It bites once the ring drains completely, which needs the mempool to be dry so that the
    refill cannot restock (in the trace the caller holds every buffer). Every slot is then
    empty, so the walk follows `rxq_tail_ptr` one past `rxq_head_ptr`. `missing`
    (`mqnic.c:207`) wraps to `size + 1`, and once the caller frees its buffers the refill posts
    `size + 1` of them: the last one overwrites the slot of the first, whose buffer leaks.
  - `BringUp` shows when that packet can come. On a fresh NIC the port's dispatch is configured
    only after every queue is started (`bringup_fresh`). A driver started again over a NIC that
    an earlier run configured finds dispatch on, because nothing turns it off
    (`bringup_restart`). The queue-level runs take the fresh case (`EarlyTraffic = FALSE`).
- **Bypass peek strands a tail (`mqnic.c:864`).** With `RXCQ_BYPASS_BATCH` above 0 a completion
  is harvested only once the slot that many places further is written. Packets at the end of a
  burst wait for traffic that may never come. Spec section 9 asks both completion modes to
  behave alike.
- **No hint capacity check.** The drain writes a hint per hinted completion with no capacity check
  (spec: `hint_count <= 16`). `ixy-throughput.c` asks for at most `RX_BATCH_SIZE` (16) buffers,
  the size of its `hints` array, so the app itself stays within bounds.
- **Dead length clamp.** `buf->size` takes the raw `cpl->len`, because the clamp on the line before
  is overwritten.
- **app_id truncation.** `app_id` is `uint16_t` but is masked to 8 bits.

## Bounds and why they are enough

- **RX.**
  - Ring size 4, with driver counters mod 16 and NIC pointers mod 8. Both kinds of counter
    therefore wrap within a behaviour, and the masks matter.
  - The refill threshold is 2 and the CQ tail batch is 2. These keep the code's ratios (8 and 32
    below 256) so that hysteresis and deferred writes both happen.
  - There are 6 buffers and 12 packets, which is three laps of the ring.
- **TX.**
  - Ring 4, `full_size` 2, counters mod 16/8, and 10 packets (five laps).
  - `tx_main` uses a reap budget of 1, so the budget limits reaping, and `TX_BATCH_SIZE` 1, the
    app's value. It has 4 buffers.
- **RX bypass.** `rx_bypass` uses the rx_main bounds with `RXCQ_BYPASS_BATCH` 1 and batches of
  3, so a batch ends both on and off a pair boundary. `rx_bypass_tail` uses 5 packets, an odd
  number.
- **QueuePair.** Rings of 4 with counters mod 16/8, a worker ring of 4, `RX_BATCH_SIZE` 2,
  `TX_BATCH_SIZE` 1, the gate slack 1, 5 packets and 6 buffers. Packets carry no hint or a
  hint for app 1 (`rx_hash` 0x10010), and 2 words may be pending in the message register, so a
  rearm pair fills it and the thread waits on the NIC. Six buffers are fewer than RX
  ring + worker ring + TX ring hold, so the shared pool runs dry and the refill has to wait for
  the TX reap. Both `bufs[]` indexes wrap. The code's pool (4096 buffers for 256 + 128 + 128
  places) never runs dry; the small pool is the harder case.
- **BringUp.** Three queues, so each loop has a first, middle and last turn, and up to 4
  packets per queue. Ring entries 1 (`full_size` 0), 3 (not a power of two) and 256 (the
  build), independently for RX and TX. `DESC_BLOCK_SIZE` is the build's 1. The kernel queue
  numbers (32) and `MQNIC_MIN_MEMPOOL_ENTRIES` (4096) are values the cfg supplies; the first
  are defined in `mqnic_type.h`, which is not in the repository, and only offset the binding.
- **Mailbox.** Arguments are taken at their edges: app 1 and 255, priorities 3 and 15, counts 0 and
  65535, ports 1234 and 65535, epoch logs 14 and 255. Up to 2 words are pending per register. The
  monitor rearm writes two words, so orderings of two calls are covered.

## Fairness

- The polling thread of `ixy-throughput.c` runs its loop forever, and every turn calls the RX poll
  and `if_send_tx`. Their actions are therefore weakly fair.
- The NIC engines are weakly fair: hardware moves a posted descriptor once it has completion room.
- The caller's free of harvested RX buffers is weakly fair, because the app forwards and frees
  every buffer.
- In `QueuePair` the thread's actions together are weakly fair (`WF_vars(Thread)`): exactly one
  is enabled at a time, the next call of the loop. The NIC engines are weakly fair as above, and
  so is the NIC scheduler's taking of message-register words (`NicTakeCpuMsg`), which it polls.
- Threads of `ixy-throughput.c` do not share state: each has its own queue pair, mempool and
  message register. One thread per model is therefore enough, and `QueuePair` models one.
- `BringUp` checks only invariants, so it assumes no fairness.

## Not modelled

- **Not modelled at all.**
  - PCI/VFIO mapping and the CSR discovery of `mqnic_init`: register reads whose values the
    model takes as given.
  - `msg.c` (a CPU spin) and the Rust FFI wrappers.
  - The test programs and the device stubs.
  - The head-register completion and TX modes (`#else` branches of `IF_RXCQ_BYPASS_REG`,
    `IF_TXCQ_BYPASS_REG` and `IF_RXTX_BYPASS_REG`): `mqnic.c:33-35` defines all three, so
    those branches are not compiled.
  - The packet rewrite of `if_do_work`, the statistics and the printing of `poll_queue`.
  - `process_work` (`msg.c`), the simulated work. `if_do_work` calls it with `ENABLE_WORKER`
    1 and `if_preemptive` 0, so it spins for the packet's `runNs` and always reports the work
    complete; `QueuePair`'s `DoWork` is that one step. The preemptive slice, which writes the
    remaining `runNs` back into the packet, has callers only outside the repository (with
    `p_interval` 0 it would report the work complete without spinning). `if_do_work` also adds
    that boolean result, not a duration, to `total_worktime`, so the printed "Avg worktime" is
    not a time; it is statistics and is not modelled.
- **Not checked by any run.**
  - The dispatcher init word `17` of `init_rx`. Read with the 4-bit opcode table it is opcode 1
    for app 1, but spec 4.6 lists 17 as a code of its own. Setting `AfterInitRx` puts it in
    front of the mailbox, and `MailboxFaithful` then fails on it; whether the NIC reads the
    whole word is hardware behaviour, so no run asserts either reading.
  - `mqnic_tx_batch` with batches above 1, the app's `TX_BATCH_SIZE` being 1. `QueuePair` still
    reaches a refused batch, when the TX ring is full.
  - A zero-length TX buffer, which the spec excludes. TLC shows it stalls the ring.
  - `mqnic_fill_rx_buffers`. Added to `rx_main`'s `Next` with `num` 1, TLC finds
    `RingOccupancy` and `BufferConservation` violated four steps in. The bring-up refill has
    filled the ring, so the fill overwrites a posted slot and leaks its buffer. The function is
    exported but has no caller here, so no run includes it.
  - Which user queues the RSS mask `num_rx_queues - 1` (`mqnic.c:579`) reaches. Only a
    power-of-two queue count gives a mask that selects every queue. The policy written is 1
    (rank bound), and how the dispatcher uses the mask then is hardware behaviour.
  - A failed `pthread_create` in `main`. `main` goes on to set the affinity of, and join, an
    uninitialised `pthread_t`.
  - Ring sizes that are not a power of two. `round_power` rounds them down (3 gives 2), so the
    check at `mqnic.c:175` never fires and nothing is rejected, while spec line 211 says such a
    size must be rejected at bring-up. `ActivationAgrees` holds for 3: the registers agree with
    the smaller ring, so nothing breaks on the NIC; the disagreement is with the spec's wording.
  - `DESC_BLOCK_SIZE` other than 1. `init_tx` rounds the announced block up to a power of two but
    not the stride, so with 3 `ActivationAgrees` fails (64-byte slots on the NIC, 48-byte
    strides in the ring); it holds for 2 and 4. The build and spec 4.5 fix it at 1.
  - `TX_BATCH_SIZE > 1` liveness. It fails for the leftover packet when traffic stops, so it is not
    run.
  - The NIC's DMA into the buffers of a driver that died, before the next run's `init_rx`
    deactivates the queue. The driver cannot act on it.

## Plan for later work

1. The polling threads started over `BringUp`, as one composition. `ixy_init` returns before
   `main` creates any thread, and the threads share no state, so the composition is sequential:
   `BringUp`'s final state (geometry, registers, dispatch on) as the initial state of one
   `QueuePair` per queue. It would add the hand-over and the init word `17` ahead of each
   thread's `register_app` on the same register; it would not add interleavings.
2. The preemptive path of `process_work`, once a caller of it is in the repository.
