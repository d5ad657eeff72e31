SPECIFICATION Spec
CONSTANTS
  Nodes = {1, 8}
  Require = {0, 1, 8}
  FreshTable = {8}
  LongMessages = {3}
  FifoSize = 2
  MaxMessages = 3
  MaxNonces = 3
  MaxStarts = 2
  MaxFaults = 2
INVARIANTS
  NonceAcceptedOnce
  RejectedForAReason
  ToldMeansSigned
CHECK_DEADLOCK FALSE
