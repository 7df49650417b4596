\* Three callers, two probe slots, two successes to close, and a window of one
\* for a threshold of two, which the constructor widens.
SPECIFICATION FairSpec
CONSTANTS
  Calls = {c1, c2, c3}
  FailureThreshold = 2
  ConfiguredWindow = 1
  SuccessThreshold = 2
  HalfOpenConcurrency = 2
  ResetTimeout = 2
  MaxTrips = 1
  NotOpened = NotOpened
INVARIANTS OpensInTime NoPhantomProbe
PROPERTIES OneOpening Recovers
