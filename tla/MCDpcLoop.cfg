SPECIFICATION FairDpcSpec
CONSTANTS
  d1 = d1
  w1 = w1
  Dpcs <- MCDpcs
  Timers <- MCTimers
  Processors = 2
  AddFailures = {0}
  MaxRequests = 3
  MaxOverlaps = 1
  NULL = NULL
INVARIANTS
  DpcTypeOK
  AnswerNoticed
  CollectedOnce
PROPERTIES
  AnswersAreTaken
  CollectedIsCompleted
CHECK_DEADLOCK FALSE
