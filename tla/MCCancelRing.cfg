SPECIFICATION CancelSpec
CONSTANTS
  ShadowEntries = 3
  Urbs = {u1, u2}
  Resets = {}
  Controls = {}
  Scratches = {s1, s2}
  ScratchResets = {}
  NULL = NULL
  MaxCount = 4
  thePipe = thePipe
  Pipes = {thePipe}
  PipeOf <- MCPipeOf
  GrefFailures = {u1}
  InitWorkItems = 1
  ItemsCanFail = TRUE
  Disconnects = TRUE
SYMMETRY ScratchSymmetry
VIEW RingCancelView
PROPERTIES
  RingRefined
CHECK_DEADLOCK FALSE
