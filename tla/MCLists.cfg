\* One cookie of six hosts over a suffix list, and three headers on a line; a text of six
\* characters in chunks of two; three requests logged, one of them excluded, in batches of two
\* and of three; a response, what renews it, and two requests for it; a transfer of two chunks
\* reported every two ticks of three; two operations of any kind at a time on a cache of three
\* keys that holds two entries, of which one may be large.  What is listed runs out, so the
\* system may stop.
SPECIFICATION ListsSpec
CONSTANTS
  None = None
  MaxAttrs = 2
  MaxHeaders = 3
  MaxText = 6
  MaxChunk = 2
  Requests = {rA, rB, rC}
  Excluded = {rC}
  SweepAbove = 1
  LogBatch = 2
  BatchSize = 3
  SmallBatch = 2
  VaryFields = {"f"}
  Values = {"x", "y"}
  DefaultTtl = 2
  MaxAbsoluteAge = 3
  MaxTime = 3
  Unreadable = Unreadable
  Answers <- Headers
  Renewals <- Renewing
  Keys = {k1, k2, k3}
  Tags = {g}
  Tasks = {t1, t2}
  Responses <- TwoResponses
  MaxEntries = 2
  MaxSize = 3
  MaxCalls = 3
  BodyChunks = 2
  MaxInstant = 3
SYMMETRY Symmetric
INVARIANTS ArrivesWhole KeptHonest Accounted OneRevalidation
PROPERTIES SetWithinCapacity
CHECK_DEADLOCK FALSE
