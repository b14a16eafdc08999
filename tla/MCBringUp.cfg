\* A fresh NIC: the port's dispatch is not configured when ixy_init runs.
\* Ring sizes of 1 (no full_size), 3 (not a power of two) and the build's 256.
CONSTANTS
  NumQueues = 3
  RestartCases = {FALSE}
  MaxTaken = 4
  EntryCases = {1, 3, 256}
  DescBlockSize = 1
  TxKernel = 32
  RxKernel = 32
  MinMempool = 4096

SPECIFICATION Spec

INVARIANT TypeOK
INVARIANT BringUpTailExact
INVARIANT ActivationAgrees
