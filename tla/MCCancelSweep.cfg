SPECIFICATION CancelSpec
CONSTANTS
  ShadowEntries = 3
  Urbs = {u1, u2}
  Resets = {}
  Controls = {}
  Scratches = {s1}
  ScratchResets = {}
  NULL = NULL
  MaxCount = 4
  thePipe = thePipe
  Pipes = {thePipe}
  PipeOf <- MCPipeOf
  GrefFailures = {}
  InitWorkItems = 0
  ItemsCanFail = FALSE
  Disconnects = TRUE
INVARIANTS
  CancelRoutineOwns
CHECK_DEADLOCK FALSE
