SPECIFICATION CancelSpec
CONSTANTS
  ShadowEntries = 3
  Urbs = {u1, u2, u3}
  Resets = {}
  Controls = {}
  Scratches = {s1}
  ScratchResets = {}
  NULL = NULL
  MaxCount = 4
  thePipe = thePipe
  Pipes = {thePipe}
  PipeOf <- MCPipeOf
  GrefFailures = {}
  InitWorkItems = 0
  ItemsCanFail = FALSE
  Disconnects = FALSE
VIEW CancelView
INVARIANTS
  AnswersMatch
CHECK_DEADLOCK FALSE
