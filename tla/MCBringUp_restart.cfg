\* The driver started again over a NIC that an earlier run configured.
CONSTANTS
  NumQueues = 2
  RestartCases = {FALSE, TRUE}
  MaxTaken = 2
  EntryCases = {256}
  DescBlockSize = 1
  TxKernel = 32
  RxKernel = 32
  MinMempool = 4096

SPECIFICATION Spec

INVARIANT BringUpTailExact
