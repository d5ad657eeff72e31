SPECIFICATION Spec
CONSTANTS
  MaxLookups = 2
  MaxAnswers = 2
  NotFoundLimit = 2
  Builds = {b1, b2}
  FirstBuild = b1
  Settings = {s1, s2}
  Defaults = s1
  Partial = partial
  Blank = s2
  NoSettings = nosettings
  CutShort = cutshort
  MaxTrials = 2
  MaxRequests = 3
  Words = 3
  Written = {2, 3}
  SHA204_RETRY_COUNT = 2
  Removable = TRUE
  MaxFaults = 5
  MqttSettings <- SomeMqttSettings
  NoServer = ""
  MaxConfigs = 2
  MaxInAir = 1
  Types = {2, 44}
  MaxStatusChanges = 4
  Digital = {1, 2}
  Analog = {11}
  Sensors = {21}
  RuleFile <- StoredRules
  TestRules <- CommandRules
  AnalogInterval = 2
  MaxMoves = 2
  MaxCommands = 2
INVARIANTS
  PageIsCurrent
  RulesAreUpToDate
  ApWhenDisconnected
  BootsCompleteBuild
  LockedAsWanted
  CleanStartCompletes
PROPERTIES
  OpenHabSettingsGetUsed
  AutomationRulesCatchUp
  NetworkComesOnline
  NetworkClockGetsSet
  SettingsSurviveUpdate
  OtaUpdateEnds
  ChipStartEnds
CHECK_DEADLOCK FALSE
