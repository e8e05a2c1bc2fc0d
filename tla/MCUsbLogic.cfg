SPECIFICATION LogicSpec
CONSTANTS
  h1 = h1
  h2 = h2
  i1 = i1
  a = a
  b = b
  HubRequests = {h1, h2}
  StatusRequests = {i1}
  HubOps <- MCHubOps
  MaxSends = 3
  MaxPowerUps = 2
  TransferSlots = {a, b}
  Transfers <- MCTransfers
  GrantRefs = {1, 2, 3, 4, 5, 6, 7, 8}
  MaxSegments = 3
  IndirectGrefPages = 2
  MaxLost = 1
  Devices <- MCDevices
  Garbage <- MCGarbage
  OtherTotals <- MCOtherTotals
  MaxFaults = 2
  MaxSelects = 2
  MaxReplugs = 1
  PacketLists <- MCPacketLists
  MaxAnswers = 2
SYMMETRY HubSymmetry
VIEW LogicView
INVARIANTS
  ChangeIsReported
  HubCompletesOnce
  EventIsOfThisReset
  GoneIsSeen
  ResourcesAccounted
  TransferDescribed
  ConfigWellFormed
  ConfigAgrees
  AnswersAgree
CHECK_DEADLOCK FALSE
