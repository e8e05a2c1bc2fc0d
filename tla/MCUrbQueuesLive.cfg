SPECIFICATION FairQueuesSpec
CONSTANTS
  t1 = t1  t2 = t2  s1 = s1  l1 = l1  p1 = p1
  NULL = NULL
  Transfers = {t1, t2}  Selects = {}  Locals = {}  PortResets = {}
  RingEntries = 2  ForwardFailures = {t1}  CanCancel = {t2}  ItemsCanFail = FALSE
  Watchdog = TRUE  CanUnplug = FALSE  Configs = 1
PROPERTIES
  UrbServed
CHECK_DEADLOCK FALSE
