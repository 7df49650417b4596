\* One probe slot: how many probes are in flight while half-open?
SPECIFICATION Spec
CONSTANTS
  Calls = {c1, c2, c3, c4}
  FailureThreshold = 2
  ConfiguredWindow = 3
  SuccessThreshold = 2
  HalfOpenConcurrency = 1
  ResetTimeout = 2
  MaxTrips = 0
  NotOpened = NotOpened
INVARIANTS ProbeLimit
