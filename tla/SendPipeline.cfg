\* One permit and a queue of one for three calls, some of which share.  The calls
\* run out, so the system may stop.
SPECIFICATION Spec
CONSTANTS
  Calls = {c1, c2, c3}
  FailureThreshold = 2
  ConfiguredWindow = 2
  SuccessThreshold = 1
  HalfOpenConcurrency = 1
  ResetTimeout = 1
  NotOpened = NotOpened
  MaxConcurrent = 1
  Queueing = TRUE
  MaxQueue = 1
  WindowMs = 1
  None = None
INVARIANTS OneRequestPerKey NothingLeftBehind NeverStuck
PROPERTIES UsesLayers
SYMMETRY Alike
CHECK_DEADLOCK FALSE
