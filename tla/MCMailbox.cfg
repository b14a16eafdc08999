CONSTANTS
  Apps = {1, 255}
  Prios = {3, 15}
  Counts = {0, 65535}
  PortNums = {1234, 65535}
  EpochLogs = {14, 255}
  Threshs = {15}
  MaxPending = 2
  AfterInitRx = FALSE

SPECIFICATION Spec

INVARIANT MailboxFaithful
