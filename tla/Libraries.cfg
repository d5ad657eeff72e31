SPECIFICATION Spec
CONSTANTS
  Names = {"a", "b"}
  DirSlots = 2
  ClusterCount = 3
  FatEntries = 2
  Units = 2
  Kinds = {"lost", "unheard", "power"}
  MaxAccesses = 6
  MaxWrites = 2
  MaxOpens = 2
  MaxFaults = 1
  Size = 6
  Pointers = 12
  EthBytes = 1
  MaxBytes = 2
  Ids = 3
  TxSize = 4
  TxPointers = 8
  Chains <- SomeChains
  MaxWaiting = 2
  TxIds = 3
  TINYJS_LOOP_MAX_ITERATIONS = 4
  ObjectValues <- SomeValues
  MaxScripts = 2
  NtpTimes <- SomeTimes
  MaxTicks = 2
  Devices = {1, 2, 3}
  Repeaters = {1, 2}
  Talkers = {3}
  FirstParents <- SomeParents
  MaxUnderWay = 2
  MaxMoves = 1
INVARIANTS
  ReadsBackWhatWasWritten
  SyncedDataSurvives
  ClustersHaveOneOwner
  FramesReadWhole
  FramesLeaveWhole
  ScriptsMeanWhatTheySay
  ClockKeepsTime
  HeardAreReached
CHECK_DEADLOCK FALSE
