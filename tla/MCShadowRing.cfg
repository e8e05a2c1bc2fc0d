SPECIFICATION RingSpec
CONSTANTS
  ShadowEntries = 2
  Urbs = {u1, u2}
  Resets = {v1}
  Scratches = {s1}
  ScratchResets = {t1}
  NULL = NULL
  MaxCount = 3
SYMMETRY RingSymmetry
VIEW RingView
INVARIANTS
  TypeOK
  FreeListExact
  ReserveForReset
  ShadowAccounted
  CounterCovers
CHECK_DEADLOCK FALSE
PROPERTIES
  PoolRefined
