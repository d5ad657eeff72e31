SPECIFICATION FairSpec
CONSTANTS
  Devices = {1, 2}
  Repeaters = {1, 2}
  Links <- PairLinks
  WeakLinks <- FirstLink
  SearchFailures = 0
  DISTANCE_INVALID = 4
  FifoSize = 1
  MaxFaults = 1
PROPERTIES
  MeshHeals
