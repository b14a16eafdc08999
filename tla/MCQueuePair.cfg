CONSTANTS
  RxSize = 4
  TxSize = 4
  FullSize = 2
  PtrMod = 16
  HwMod = 8
  RefillMin = 2
  TailBatch = 2
  BypassBatch = 0
  ReapBudget = 1
  NumBufs = 6
  BufSize = 2
  Lens = {2}
  MaxPkts = 5
  RingSize = 4
  RxBatchSize = 2
  TxBatchSize = 1
  PullSlack = 1
  FeedbackBatch = 1
  Hashes = {0, 65552}
  MaxPending = 2
  NULL = NULL

SPECIFICATION FairSpec

INVARIANT TypeOK
INVARIANT SharedBufferConservation
INVARIANT AppRingAccounting
INVARIANT HintsRearmed
PROPERTY ForwardFifo
PROPERTY AllAnswered
