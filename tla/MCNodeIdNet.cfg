SPECIFICATION FairNetSpec
CONSTANTS
  Nodes <- MCNodes
  FirstId = 1
  LastId = 2
  ChildIds <- MCChildIds
  Values = {v1}
  NoValue = NoValue
  MaxSensors = 1
  MaxDetected = 0
  Devices = {d1, d2}
INVARIANTS
  IdsAreSharedForAReason
PROPERTIES
  EveryDeviceGetsAnId
