SPECIFICATION FairScenarioSpec
CONSTANTS
  ShadowEntries = 3
  Urbs = {u1, u2, c1}
  Resets = {}
  Controls = {c1}
  Scratches = {s1}
  ScratchResets = {t1}
  NULL = NULL
  MaxCount = 4
  thePipe = thePipe
  Pipes = {thePipe}
  PipeOf <- MCPipeOf
  GrefFailures = {}
  InitWorkItems = 0
  ItemsCanFail = FALSE
  Disconnects = FALSE
PROPERTIES
  CancelledIsCompleted
CHECK_DEADLOCK FALSE
