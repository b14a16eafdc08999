CONSTANTS
  Size = 4
  FullSize = 2
  PtrMod = 16
  HwMod = 8
  ReapBudget = 1
  TxBatchSize = 1
  NumBufs = 4
  Lens = {1}
  MaxPkts = 10
  NULL = NULL

SPECIFICATION FairSpec

INVARIANT NoTxDesync
INVARIANT TypeOK
INVARIANT TxRingOccupancy
INVARIANT TxBufferConservation
INVARIANT NicReadsPosted
PROPERTY TxFifoRefinement
PROPERTY AllQueued
