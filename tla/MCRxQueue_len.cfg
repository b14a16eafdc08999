CONSTANTS
  Size = 4
  PtrMod = 16
  HwMod = 8
  RefillMin = 2
  TailBatch = 2
  BypassBatch = 0
  NumBufs = 6
  BufSize = 2
  NULL = NULL
  BatchN = 2
  Lens = {2, 3}
  Hashes = {0}
  MaxPkts = 4
  EarlyTraffic = FALSE

SPECIFICATION Spec

INVARIANT HarvestedSizeFits
