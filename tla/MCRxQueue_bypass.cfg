CONSTANTS
  Size = 4
  PtrMod = 16
  HwMod = 8
  RefillMin = 2
  TailBatch = 2
  BypassBatch = 1
  BatchN = 3
  NumBufs = 6
  BufSize = 2
  Lens = {2}
  Hashes = {0}
  MaxPkts = 12
  EarlyTraffic = FALSE
  NULL = NULL

SPECIFICATION FairSpec

INVARIANT RingOccupancy
INVARIANT BufferConservation
INVARIANT NicDmaSafe
INVARIANT CompletionsIntact
PROPERTY AllAccepted
