\* Three callers of a key, of which one may be aborted, with windows of one and two ticks and
\* without, and timers that may be late; one stream after another of a client, with three events
\* and two reconnects; a request that is redirected twice at most and sent again once, with
\* credentials if it is a GET, and with a cookie of its origin in the jar; a body of four bytes
\* with a limit of two.  Calls, streams and attempts end, so the system may stop.
SPECIFICATION FairSpec
CONSTANTS
  Calls = {1, 2, 3}
  Streams = {s1}
  Urls = {page, path, other}
  other = other
  Origin <- OneForeign
  Windows = {0, 1, 2}
  PromptTimers = FALSE
  MaxAborts = 1
  MaxReconnects = 2
  Reconnect = TRUE
  MaxEvents = 3
  MaxStarts = 2
  First = page
  MaxRedirects = 2
  MaxResends = 1
  Jars = {{"home"}}
  Authorised = {"GET"}
  MaxBody = 4
  MaxBytes = 2
  None = None
INVARIANTS MapExact NothingSkipped RedirectsSafe NothingHeld
PROPERTIES WindowHonoured EveryoneAnswered
CHECK_DEADLOCK FALSE
