SPECIFICATION Spec
CONSTANTS
  Nodes <- MCNodes
  FirstId = 2
  LastId = 3
  ChildIds <- MCChildIds
  Values = {v1, v2}
  NoValue = NoValue
  MaxSensors = 2
  MaxDetected = 3
INVARIANTS
  NoDuplicateSensor
  NodesKnown
  ForwardedIsStored
PROPERTIES
  GivenIdIsFresh
  ImplementsRegistry
