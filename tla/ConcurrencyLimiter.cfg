\* Two permits, five callers, room for two waiters: free, refused, queued,
\* handed over, aborted and drained all happen.
SPECIFICATION FairSpec
CONSTANTS
  Requests = {r1, r2, r3, r4, r5}
  MaxConcurrent = 2
  Queueing = TRUE
  MaxQueue = 2
INVARIANTS PermitsAndQueue
PROPERTIES NoOvertaking ImplementsSemaphore QueuedAnswered
