\* Two callers, sockets that open, close or hang as they like, a send that may throw,
\* and timers that fire when they like.  The client can be closed and then stops.
SPECIFICATION FairSpec
CONSTANTS
  Callers = {c1, c2}
  Sockets = {1, 2, 3}
  MaxReconnects = 1
  MaxBuffer = 1
  HighWaterMark = 1
  RateLimited = TRUE
  MaxSends = 2
  None = None
INVARIANTS OneHonestConnection MessagesKept PongTimerCurrent
PROPERTIES ConnectAnswered
CHECK_DEADLOCK FALSE
