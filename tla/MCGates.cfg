\* Three requests to two origins with room for one session; a request of up to three hops
\* over HTTP/2; two redials through a proxy; two rooms, one request, one that waits for the
\* connection and one for the buffer, within three calls; three reads of one resource with one
\* retry and room for one beside the request that refreshes the token; five callers of a rate
\* limit of two for each three milliseconds; delays of numbers up to six with a day of three
\* seconds of two milliseconds; paths of five forms under three bases, and the
\* addresses of some octets; one deduplication map that is switched on and off; two tables of
\* headers changed three times, and values of up to two characters.  Requests are made once,
\* so the system may stop.
SPECIFICATION Spec
CONSTANTS
  Requests = {r1, r2, r3}
  Origins = {o1, o2}
  Names = {n1, n2, n3}
  Inquirers = {c1}
  Openers = {c2}
  Drainers = {c3}
  Callers = {c1, c2, c3, c4, c5}
  MaxSessions = 1
  MaxHops = 3
  MaxRedials = 2
  MaxBuffer = 2
  HighMark = 2
  LowMark = 1
  MaxCalls = 3
  MaxRetries = 1
  AuthQueue = 1
  Limit = 2
  WindowMs = 3
  RateQueue = 2
  MaxTime = 6
  PerSecond = 2
  Day = 3
  MaxExponent = 4
  MaxNumber = 6
  MaxMaps = 1
  MaxParams = 2
  MaxLength = 5
  Octets = {0, 10, 127, 192, 169, 254}
  MaxTables = 2
  MaxChanges = 3
  MaxText = 2
  None = None
SYMMETRY Alike
INVARIANTS LimitsHeld ConnectionsHonest NobodyStranded OnlyWaitersTold RequestsBuilt
CHECK_DEADLOCK FALSE
