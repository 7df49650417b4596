\* A budget that the second backoff exceeds.  The loop stops when it has answered.
SPECIFICATION Spec
CONSTANTS
  MaxRetries = 2
  Timeout = 2
  TotalTimeout = 5
  Backoffs = {0, 1, 3}
  MaxQueued = 0
  OnTimeout = FALSE
  Signing = FALSE
INVARIANTS FailureReported
CHECK_DEADLOCK FALSE
