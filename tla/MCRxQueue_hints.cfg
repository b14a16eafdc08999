CONSTANTS
  Size = 4
  PtrMod = 16
  HwMod = 8
  RefillMin = 2
  TailBatch = 2
  BypassBatch = 0
  NumBufs = 6
  BufSize = 2
  NULL = NULL
  BatchN = 3
  Lens = {2}
  Hashes <- MCHashes
  MaxPkts = 4
  EarlyTraffic = FALSE

SPECIFICATION Spec

INVARIANT MCHintsFit
