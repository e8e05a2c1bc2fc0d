SPECIFICATION FairLifeSpec
CONSTANTS
  Requests = {r1}
  NULL = NULL
  MaxGen = 2
  Restarts = 1
  ScratchTimeouts = TRUE
  Failures <- AllFailures
INVARIANTS
  LifeTypeOK
  ResourcesReturned
  MappedRingKept
  PortClosedOnce
  LostOnlyByPowerDown
PROPERTIES
  ConnectedToThisRing
  LossIsNoticed
  CallbacksEnd
CHECK_DEADLOCK FALSE
