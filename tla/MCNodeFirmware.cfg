CONSTANTS
  f1 = f1
  f2 = f2
  f3 = f3
  Firmware <- Images
  NoFirmware = none
  Blocks <- Sizes
  FirstFirmware = f1
  MY_OTA_RETRY = 1
  MaxUnderway = 2
  MaxFaults = 2
SPECIFICATION Spec
INVARIANTS ProgramIsWhole RunsWhatItSays UndisturbedImageIsRight
PROPERTY UpdateEnds
CHECK_DEADLOCK FALSE
