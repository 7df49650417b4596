\* Three attempts and the one that corrects the clock, within a budget of two deadlines; three
\* hooks, one of them one-shot and one of higher priority, and two runs of them; four requests
\* in batches of three; five items in pages of two, or two cursors, with one page fetched
\* ahead; two calls of a client and the one made from it; two callers of expiring credentials,
\* three nonces where two are counted; two GraphQL calls with a retry each of the client and of
\* the link, and room for one hash; three cookies of a host and of the domain above it, with
\* room for two.  What is listed runs out, so the system may stop.
SPECIFICATION FairSpec
CONSTANTS
  MaxRetries = 2
  Timeout = 2
  TotalTimeout = 5
  Backoffs = {0, 1, 3}
  MaxQueued = 1
  OnTimeout = TRUE
  Signing = TRUE
  Entries = {hA, hB, hC}
  Once = {hB}
  Early = {hC}
  Runs = {r1, r2}
  MaxRemoved = 1
  Items = {iA, iB, iC, iD}
  MaxBatch = 3
  Cursors = {cA, cB}
  Limit = 2
  MaxTotal = 5
  MaxAhead = 1
  Calls = {w1, w2}
  Own <- OwnList
  Childs <- ChildsList
  Added = {"added"}
  Callers = {a1, a2}
  Lifetime = {1, 3}
  Window = 1
  Nonces = {n1, n2, n3}
  MaxNonces = 2
  MaxTime = 4
  MaxUses = 5
  Queriers = {q1, q2}
  Texts = {tA, tB}
  Asked <- OneQuery
  MaxHashes = 1
  Retries = 1
  LinkRetries = 1
  Domains = {"host", "domain"}
  Under <- OneUnder
  Suffixes = {}
  Names = {"sid", "lang", "id"}
  Lives = {0, 1}
  JarLimits <- TwoLimits
  JarDefaults <- Middle
  MaxDays = 2
  None = None
INVARIANTS SentOnce BackoffInBudget CauseKept HooksStand PagesComplete OneForAll
PROPERTIES Terminates JarKept
CHECK_DEADLOCK FALSE
