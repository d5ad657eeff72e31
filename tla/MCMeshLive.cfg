SPECIFICATION FairSpec
CONSTANTS
  Devices = {1, 2}
  Repeaters = {1}
  Links <- PairLinks
  WeakLinks <- SideLink
  SearchFailures = 0
  DISTANCE_INVALID = 3
  FifoSize = 2
  MaxFaults = 2
PROPERTIES
  EveryDeviceConnects
