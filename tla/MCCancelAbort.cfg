SPECIFICATION ScenarioSpec
CONSTANTS
  ShadowEntries = 3
  Urbs = {u1, u2, u3, c1}
  Resets = {v1}
  Controls = {c1}
  Scratches = {s1}
  ScratchResets = {t1}
  NULL = NULL
  MaxCount = 4
  thePipe = thePipe
  Pipes = {thePipe}
  PipeOf <- MCPipeOf
  GrefFailures = {}
  InitWorkItems = 0
  ItemsCanFail = TRUE
  Disconnects = FALSE
SYMMETRY AbortSymmetry
VIEW CancelView
INVARIANTS
  CancelTypeOK
  WaitersCounted
  AbortHasOwner
  AbortStillInProgress
  CompletedOnce
  ReferencedOnRing
  ResetHasOwner
CHECK_DEADLOCK FALSE
