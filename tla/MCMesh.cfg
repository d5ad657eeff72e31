SPECIFICATION Spec
CONSTANTS
  Devices = {1, 2}
  Repeaters = {1, 2}
  Links <- PairLinks
  WeakLinks <- PairLinks
  SearchFailures = 1
  DISTANCE_INVALID = 4
  FifoSize = 1
  MaxFaults = 2
INVARIANTS
  LoopsComeFromSearches
