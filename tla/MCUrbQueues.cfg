SPECIFICATION QueuesSpec
CONSTANTS
  t1 = t1  t2 = t2  s1 = s1  l1 = l1  p1 = p1
  NULL = NULL
  Transfers = {t1}  Selects = {s1}  Locals = {l1}  PortResets = {p1}
  RingEntries = 2  ForwardFailures = {s1}  CanCancel = {t1}  ItemsCanFail = TRUE
  Watchdog = TRUE  CanUnplug = TRUE  Configs = 0
INVARIANTS
  QueuesTypeOK
  RequestAccounted
CHECK_DEADLOCK FALSE
