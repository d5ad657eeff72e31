CONSTANTS
  Tokens = {t1, t2}
  NoToken = notoken
  NumChecks = 2
  Digital = {d1}
  Analog = {a1}
  FORCE_PUBLISH_ANALOG_IVL = 2
  MaxChanges = 1
SPECIFICATION Spec
INVARIANTS SessionIsCurrent
PROPERTIES GetsSubscribed AnalogReachesCloud
