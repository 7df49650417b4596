\* One stale entry, and a server that never ends a body.
SPECIFICATION FairSpec
CONSTANTS
  Keys = {k1}
  Tags = {g}
  Tasks = {t1}
  Responses <- TwoResponses
  MaxEntries = 2
  MaxSize = 2
  MaxCalls = 2
  None = None
PROPERTIES MarkNeverStuck
CHECK_DEADLOCK FALSE
