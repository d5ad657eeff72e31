SPECIFICATION FairNetSpec
CONSTANTS
  Nodes <- MCNodes
  FirstId = 1
  LastId = 1
  ChildIds <- MCChildIds
  Values = {v1}
  NoValue = NoValue
  MaxSensors = 1
  MaxDetected = 0
  Devices = {d1}
PROPERTIES
  EveryDeviceIsAnswered
