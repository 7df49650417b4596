# Verification of kinetex

TLA+ models of kinetex, an HTTP client for TypeScript runtimes: what the parts of
the client promise each other and their callers, model-checked with TLC on small
instances and, for the parts at the centre, proved with TLAPS for every value of
the constants. `PROJECT.json` is the index: components, runs, mutants, the map
from definitions to source lines, findings, hazards and theorems. Paths below are
relative to `src/src/`.

JavaScript runs one piece of code at a time, so an action of a model is a piece
of code that runs without an `await`: a call up to its first suspension, a
promise callback, a timer callback, an event handler. Between two actions
anything else may happen. Where a promise is resolved in one place and its
waiter resumes in another, the models keep the two apart.

## The system

A request goes down and its answer comes up through these layers:

```
send: URL, headers, key -> circuit breaker -> dedup map -> concurrency limiter -> retry loop -> attempt
                                                                                                  |
                     interceptors, cache, cookies, redirects, transport (HTTP/2, node:http, proxy), body
```

The breaker of an origin is entered by every call, the dedup map by the calls it
coalesces into one, the limiter by the leaders only. A permit is held for all the
attempts and backoffs of a request. `destroy()` drains the limiter and clears the
map while answers are still under way. The WebSocket and SSE clients are
independent of these layers; `client.ws()` looks at the breaker once.

| Part | State | What is hard | Module |
|---|---|---|---|
| Concurrency limiter, `interceptors.ts` 1553-1733 | permits held, queue | a permit handed to a waiter that resumes later | `Semaphore`, `ConcurrencyLimiter` |
| Circuit breaker, `circuit-breaker.ts` 150-475 | state, window, run of failures, probe slots | calls that settle in another state than they began in | `CircuitBreaker` |
| Dedup map, `dedup.ts` 200-490 | one entry and one timer per key | what an entry that lost its key does later | `DedupMap` |
| The layers, `client.ts` 2740-2861 | the three above, nested | one call's progress is spread over three layers | `SendPipeline` |
| What precedes them, `client.ts` 2340-2806 | request, key, span | awaits between the key and its use | `SendPrelude` |
| Retry loop, `client.ts` 2906-3080 | attempt, time, signal | what may be repeated; which deadline ends what | `RetryLoop` |
| Delays, `client.ts` 1441-1500, `headers.ts` 1925-1971, `interceptors.ts` | none | malformed and far-off dates, two copies that must agree | `Backoff` |
| Attempt and redirects, `client.ts` 3102-4330 | chain, deadline, body, cookies | what goes along to another origin; who cleans up | `Exchange` |
| A client's life, `client.ts` | parts made on demand, sockets | `destroy()` and `extend()` between two awaits | `ClientLife` |
| WebSocket client, `ws.ts` | socket, four timers, buffer, waiters | handlers and timers of a replaced socket | `WSClient` |
| What is said over it, `ws.ts` | rooms, requests, waiters | a list that is restored beside a buffer that is flushed | `WSTalk` |
| Response cache, `cache.ts` 774-1474 | entries, LRU list, tag index, gauges, marks | a storage awaited between reading the books and writing them | `HTTPCache`, in `MCLists` |
| Lifetimes, `cache.ts` 676-1000, 1139-1164 | dates of an entry | a 304 that renews a part of it | `Freshness` |
| HTTP/2 sessions, `core.ts` 560-860, 1507-1540 | sessions, usage, ping timers, creations | late events of evicted sessions, shared creations | `SessionPool` |
| A request over HTTP/2 or node:http, `core.ts` 900-1500, 2200-2340 | stream, timer, listeners, agent | an end by timer, signal, error and body in any order | `H2Exchange`, `NodeHTTP1` |
| Bodies, `response.ts`, `client.ts` | what has arrived | limits, cuts, cancellation | `BodyReader`, `ChunkParsers` |
| SSE, `sse.ts` | id, controller, watchdog, line parser | reconnects while the consumer is elsewhere | `SSEClient`, `ChunkParsers` |
| Proxies, `socks5.ts`, `proxy.ts` | dial and handshake | a dial that outlives its timeout | `Tunnel` |
| Interceptor suite, `interceptors.ts` 407-1483 | phases, slots, tokens | phases that are skipped | `InterceptorSuite`, `RateLimiter` |
| Hooks and interceptors, `lifecycle.ts`, `interceptors.ts` | lists of handlers | lists that change while they run | `HookLists` |
| Batching, pagination, logging, progress | queues, timers, counters | what waits when something is aborted | `BatchQueue`, `Pager`, `LogDelivery`, `Progress` |
| GraphQL, `graphql.ts` | hashes of queries | nested retries, a shared cache | `GraphQLCall` |
| Cookies, `cookie-store.ts`, `cookie-parser.ts` | cookies, two limits | replacement, expiry and eviction together | `CookieJar`, `CookieRules` |
| Credentials, `aws-sigv4.ts`, `digest.ts` | shared refresh, nonce counts | an expired or failed refresh | `Credentials` |
| URLs and headers, `utils.ts`, `url.ts`, `headers.ts` | tables with guards | shared lists; what is written must read back | `URLBuild`, `HeaderTable` |

The types, entry points and shims declare and re-export and have no behaviour of
their own. The adapters of the other runtimes are calls into the platform.

## The modules

Every variable is commented with the field it stands for; a variable marked
*history* is not in the program and is read by properties only. Operators named
after a fault ("Fault: ...") are wrong versions of the definition below them,
against which the properties are tested; no specification uses them.

`ConcurrencyLimiter` refines `Semaphore`; `SendPipeline` composes instances of
`ConcurrencyLimiter`, `CircuitBreaker` and `DedupMap`. Four modules put parts side
by side that share no state with each other: `MCGates` what a request has to pass,
`MCFlows` what must answer, `MCQueues` what comes one after another or is made once
for all who ask, `MCLists` what arrives in pieces and what is kept of it for later, the response cache
among it. In each the variable `focus` chooses the part that moves; the others keep one initial
state, so the state space is the sum of the parts'. The numbers, names and lengths of
the first three are constants under `GatesAssumption`, `FlowsAssumption` and
`QueuesAssumption`, so that the theorems about them are for every value; a `.cfg`
names the instance.

Correspondences that are not one to one:

- **Limiter.** `acquire` is split by outcome (aborted, free, refused, queued).
  `granted` is the time between the resolution of the promise and the caller's
  next line; `release` is the `finally` of `_executeWithRetry`, which is skipped
  by a caller that was never granted. A caller may call again.
- **Breaker.** `execute` is split by what it decides, settling by the result and the
  state it finds. The run of failures is compared with the threshold only and stops
  counting there.
- **Dedup map.** An entry is named by the call that leads it. Time is the age of the
  owner's result. Each caller brings a window of its own, and a due timer may run late
  unless `PromptTimers` is set, as it is in the runs where lateness is not the question.
  `wiped` (history) holds the entries that a timer has deleted while they were in flight.
- **Pipeline.** The layers' actions are used as they are; the pipeline says when.
  Retrying, and what a request is, are one step that gives a verdict.
- **Retry loop.** A request is a record of what the loop reads of it. The server may
  answer anything or nothing, and a late answer races the deadline. Its delays are any
  up to a bound; `Backoff` computes them, with a second of `PerSecond` milliseconds and
  a short day, so that overflow of the exponent and dates past the limits are in reach.
- **Attempt.** `place` names the await at which `_executeOnce` stands; a response
  interceptor that sends again nests another attempt in it (`depth`). A transport may be
  `deaf` to a signal that had aborted before it was asked, as node:http is; it is the
  race in `sendWithTimeout` that ends such a hop (`HopTimesOut`).
- **Client's life.** A call of `ws()` is at the last thing it awaits, the jar; that it
  awaits a token or a key before is not a step, and it may ask and dial after `destroy()`.
- **Cookies.** `Reload` stands for a jar that `fromJSON()` makes of the data of another one
  and that takes its place: it has the default limits, and `Load` puts the cookies one by
  one with the evictions of any other.
- **WebSocket client.** A socket's name is used again when no handler, timer or
  history refers to it. A socket is open when the runtime says so; the handlers it
  carries (`attached`) are what the code can take off, and `opening` is the set of
  connect timeouts that run. `WSTalk` keeps of the connection what a caller can tell.
- **Cache.** An operation is a chain of segments, each ending with the storage call
  it awaits; `task[t].at` names the await, the other fields are the local variables
  that live across it. An entry has a phase instead of an age: fresh, stale or dead;
  `Freshness` computes the dates behind it. Whether a request matches the
  Vary key, which keys have the prefix of an invalidation, and whether the adapter
  refuses an entry are choices. `behind` (history) holds, for each operation, the keys that
  others have written since it looked at them; one that writes such a key all the same has
  raced for it, and the gauges or the index may be off from there on (`skewed`), as they
  may after a restore over an entry or one that was refused. Operations on different keys
  never do that, however they interleave. `late` (history) holds the entries that others
  have added since a `set()` counted, and `forgotten` the keys whose marks a `clear()` has
  dropped while they were being revalidated.
- **HTTP/2.** `SessionPool` is about whose session is where, `H2Exchange` about one
  request over the streams it gets, hop by hop. In both a late event of the runtime
  names the session or stream it came from. The map of times of use is kept as their
  order (`usage`, pairs of an earlier and a later origin), which is all an eviction reads.
- **Rooms.** The buffer of messages is replayed on a new connection after the rooms are
  joined again (`Replayed`): of what it says about a room the last message counts.
- **Interceptors.** `InterceptorSuite` runs the suite's order over one resource;
  `HookLists` leaves out what handlers do and keeps how the four kinds of lists are
  iterated, with a copy, a sorted copy or the array itself.
- **Texts.** In `ChunkParsers`, `CookieRules` and `HeaderTable` a text is a
  sequence of the characters a parser looks at, and words stand for the rest. The
  event-stream parser is compared with the automaton of its standard, the others with
  what was written before it was cut into chunks. Two cuts make a difference, between a
  CR and its LF and inside an object of `readJSONStream`: `cut` and `dirty` (history) mark
  them, and the properties say what the parsers yield after them.
- **Rate limiter.** Tokens are fractions of the window and so exact; the code's are
  floating-point numbers. `grants` (history) counts, for each time, the grants up to it.

## What is checked

Eight runs pass:

| Run | Instance | Shows |
|---|---|---|
| `limiter` | 5 callers, 2 permits, queue of 2 | permits and queue exact and no idle permit (`PermitsAndQueue`), arrival order (`NoOvertaking`), an answer for everyone queued (`QueuedAnswered`), refinement of `Semaphore` |
| `breaker` | 3 calls, 2 probe slots, threshold 2, window of 1 | no closed circuit at its threshold (`OpensInTime`), no slot without a probe (`NoPhantomProbe`), an opening lasts its timeout (`OneOpening`), a healthy service closes the circuit for good (`Recovers`) |
| `pipeline` | 3 calls, 1 permit, queue of 1, threshold 2 | one request per key, nothing left behind when all is answered, no layer waiting for one that waits for it (`NeverStuck`), each layer used as its module assumes (`UsesLayers`) |
| `ws` | 2 callers, 3 socket names, 1 reconnect, 2 messages, buffer of 1 | one connection and an honest state (`OneHonestConnection`), no message twice or lost unseen, no stale pong timer, an answer to `connect()` |
| `gates` | ten parts, one at a time | no limit passed (`LimitsHeld`: sessions, rate), nothing of a connection left behind and the rooms as the client says (`ConnectionsHonest`: streams, tunnels, rooms), nobody waits for what nobody will do (`NobodyStranded`), nobody is told who did not wait (`OnlyWaitersTold`), what is built says what was asked (`RequestsBuilt`: URL, headers, body, key), and no retry is sent too late (its delays) |
| `flows` | five parts, one at a time | what is in flight for a key has it, or lost it to the one timer that can take it, and sharers end as their leader (`MapExact`), a result stays for its window until a caller with a shorter one replaces it (`WindowHonoured`), no event lost or doubled over reconnects (`NothingSkipped`), credentials and cookies at home along redirects (`RedirectsSafe`), no timer, listener, connection or source of a body left, and bodies whole to their end or limit (`NothingHeld`), an end for everyone but a stream whose fetch `close()` does not reach (`EveryoneAnswered`) |
| `queues` | nine parts, one at a time | unsafe requests, consumed bodies, batched calls and full queries are not repeated or left waiting (`SentOnce`), backoffs fit the budget (`BackoffInBudget`), the cause is kept (`CauseKept`), the retry loop ends (`Terminates`), registrations stand and runs of hooks are complete (`HooksStand`), every item of a listing once (`PagesComplete`), a client's parts are made and credentials fetched once for all who ask, no nonce is counted twice, and the two maps of query hashes agree (`OneForAll`), the jar is counted, within the limits it has, also while it is loaded from another's data, and gives up what was used the longest ago (`JarKept`) |
| `lists` | seven parts, one at a time; of the cache 3 keys, 2 operations at a time and 3 in all, room for 2 entries of which 1 may be large | chunks do not matter but for the two cuts after which the parsers yield something else, and then exactly that, a transfer is reported to its end and a log entry arrives once (`ArrivesWhole`); what is answered fresh and what stale, to which requests, and cookies read and shown by their rules (`KeptHonest`); gauges, LRU list and tag index say what the storage holds unless two operations have raced for one key (`Accounted`), a `set` exceeds the capacity by what overlapped with it only (`SetWithinCapacity`), one revalidation per key (`OneRevalidation`) |

The conjuncts of the composed properties are stated and explained in the parts'
modules. Each property is also broken by one or more mutants of the model: a
small fault in the definition of one operation, of the kind a change of the code could make.

Four runs end in a violation. Each states what a comment or a document says and
the code does not do:

| Run | Statement | What happens |
|---|---|---|
| `breaker_probe_limit` | at most `halfOpenConcurrency` probes in flight | entering half-open sets the count to zero while probes of the previous half-open period are still under way |
| `dedup_stale_timer` | one factory in flight per key until something empties it | a caller with a shorter window replaces a result without clearing its timer, which then deletes the new entry in flight (`dedup.ts` 271-273, 343); every timer fires in time |
| `retry_reported` | an error is reported to the error interceptors | the throw for an exhausted budget leaves the `catch` directly |
| `cache_mark_stuck` | a mark never survives its revalidation | the deadline covers the headers; a body that never ends keeps the key marked, and it is served stale for ever |

Six more disagreements are stated by properties that pass, as what the code does, and are
findings: sharers of an aborted leader fail with it and do not fall through to their own
requests (`SharersFollow`; `dedup.ts` 13-14); `close()` does not abort a stream that waits for
its answer (`StoppedEnds`; `sse.ts` 460); a CR and an LF in two chunks end two lines
(`EventsWhole`; `sse.ts` 136); after a chunk that ends inside an object `readJSONStream`
yields nothing more until the body ends (`ValuesWhole`; `response.ts` 1202-1203); what came
with no-cache or must-revalidate is answered stale before it is revalidated, and the window
for errors is used without an error (`AnswersAllowed`; `cache.ts` 82-84, 984).

### Bounds

The instances are the smallest in which the hard cases meet.

- Limiter: two permits and a queue of two leave one caller of five to be refused
  while a waiter aborts and another is handed a permit.
- Breaker: three calls allow two sibling probes and one call left over from the
  closed period; after a second opening a probe of the first half-open period may
  still be under way. `MaxTrips` bounds the operator only.
- Pipeline: with one permit and three calls, one leader runs, one queues, and one
  shares or is refused. Calls are sent once.
- WebSocket: one reconnect is below and at the limit; two messages can change places;
  a socket, its successor and one more name for a socket whose send failed. `WSTalk`
  has two rooms and three calls (`MaxCalls`): a join, a leave and one that waits.
- Cache: of three operations two race and the third finds what they left; a third entry
  has to make room by number and a second large one by size, the two loops of
  `_ensureCapacity`. `MaxCalls` bounds the operations begun; a revalidation goes on in
  the task that was served stale and is not counted. Four operations gave the same.
- `gates`: three requests of two origins with one session allowed make creations
  overlap with evictions; three reads with one retry, a leader that fails and
  a follower that leads next; five callers of a limit of two, so that a window and
  the next are both exhausted; three changes of two tables, of which a copy, a merge
  and a write.
- `flows`: three calls are a leader, its successor after an abort or after a lapsed window,
  and a sharer of either; windows of none, one and two ticks differ between callers, the
  longer has a middle, and timers are late (`PromptTimers = FALSE`). One call is aborted
  (`MaxAborts`): a leader, whose end then meets its successor's, or a sharer. Two reconnects,
  so that one follows another without an event in between; two redirects lead to another
  origin and back. A GET has credentials or not (`Authorised`), the others have a body or a
  method to lose, and the jar holds a cookie of the first origin (`Jars`), which the second must
  not see, until the second sets its own. A body of four bytes has a limit of two: it ends
  below, at or past it. The theorems hold for every value of these constants.
- `queues`: a first, a middle and a last attempt; the budget of five ticks is passed in
  the middle of an attempt and by a backoff, and `MaxQueued` bounds the time spent before
  the loop, which the budget includes. Three hooks, of which one is one-shot and one of
  higher priority, and two overlapping runs, with one removal (`MaxRemoved`) of one or all
  of them; four requests in batches of three, so that one waits for the next timer; a page
  ahead of a consumer of two full pages and the begun third, and two cursors. Two calls of
  a client ask for the same part (`wanted`), and a configuration is changed for the jar
  only; two callers of credentials meet in a refresh; of three nonces two are counted, so
  that one is dropped and comes back (`MaxUses` bounds the authorizations). Two GraphQL
  calls, of which one is persisted, one may be aborted and one retries, with room for one
  hash, so that a second text evicts the first. Three cookies of two domains with room for
  two, of a domain and in all; a jar is made with this limit, or with
  room for one, and the default limits (two in all, one of a domain) are smaller than the
  first and larger than the second.
- `lists`: a text of six characters in chunks of one or two; logs in batches of two, and of
  three entries from the remote logger. A response is stored over nothing, and has one
  window of stale use.

### Fairness

Weak fairness is assumed only where the runtime or a deadline runs the code, and of
the action that it runs:

- a resolved promise's callback runs (`Resume` of the limiter), a timer that is
  due fires (`Expire`, `Tick`; `Redial`, `ConnectTimeout`; `Wake` of a backoff; `Fire` of
  node:http's deadline; `Abort` of an attempt's), a socket that was closed reports it;
- calls in flight settle (`Settle`), because each attempt has a deadline: that is what
  `Terminates` shows of the retry loop under fairness of the loop and its clock, and
  `CallEnds` of an attempt under fairness of its own steps (`Proceed`) and its deadline.
  The server may be silent for ever in both;
- of an event stream, a fetch ends once its own signal, that of the configuration, has aborted
  (`Cancelled`), a read that was given up ends (`StopReading`) and the consumer goes on asking
  or leaves (`GoOn`). That a fetch is answered is not assumed, and `close()` does not reach it;
- a hop of an attempt ends with its deadline (`HopTimesOut` in `Proceed`): `sendWithTimeout`
  races the transport against it (`core.ts` 1694-1722), so that a transport which does not
  hear the signal cannot hold the call;
- the segments of a cache operation go on (`Continues`): an adapter answers, and the
  client's deadline ends a wait for headers. The end of a body is not assumed, because
  nothing bounds the wait for it.

No fairness is given to callers who abort, to servers, or to sockets that connect.
`Recovers` also assumes that calls keep coming and that the service has become healthy
for good. `CHECK_DEADLOCK FALSE` is set where calls are made once and the system
stops when all are answered; `NeverStuck` and `NobodyStranded` say what may not be
waiting then.

## What is proved

For every set of callers, origins, sessions or keys and every value of the constants that
the `ASSUME`s admit (positive limits and thresholds, finite sets where something is
counted, names that are not each other's):

- **`ConcurrencyLimiterProofs`**: `TypeOK`, `PermitsExact`, `QueueExact` and
  `WorkConserving`, which are inductive together and not alone: that a release
  never makes the counter negative needs the counter to be exact, that a hand-over
  goes to a caller that waits needs the queue to be exact, and a permit freed by a
  release is free only because the queue is empty, which is work conservation.
  From them `NoOvertaking` and the refinement of `Semaphore`.
- **`CircuitBreakerProofs`**: `TypeOK`, `OpensInTime`, `NoPhantomProbe` and
  `OneOpening`. The invariant adds `Trailing`: while closed, the last results in the
  window are the current run of failures, as many of them as the run counts. Without
  it the number of failures in a row could pass the threshold unseen by the window. It
  is where the widening of the window by the constructor is used.
- **`FlowsProofs`**, about `MCFlows` and the five parts in it. The deduplication map:
  `MapExact` and `WindowHonoured`, for callers with windows of any lengths and timers that
  are as late as they like. The invariant adds what each entry is to its leader (`Led`), that
  a pending entry owns the key unless something emptied it or a timer has deleted it
  (`Owned`), and that the timer and the age of the result it was set for make up the window,
  or that it was left by a result that was replaced (`Agree`). That there is one factory at a
  time is false (`dedup_stale_timer`); what is proved says which entries can be in flight
  beside it.
  Redirects (`RedirectsSafe`): the request at hand, like every one that was sent, carries
  what it may (`Chain`), so that the next hop, made from it, does. Timers, listeners and
  bodies (`NothingHeld`): of node:http, what has not been made yet cannot be held (`Unmade`)
  and a deadline is watched until something settles (`Watched`); of a body, what the
  reader's stream says of its end (`Readable`: it is closed when all has passed, or the
  connection broke off before a body that is decoded began), which makes whole what a
  reader calls whole, for any length and limit. Event streams
  (`NothingSkipped`): what the consumer has is what the server sent before the id it would
  ask for (`Following`), for a client that runs one stream at a time (`OneAtATime`); streams
  that run side by side share the id.
- **`QueuesProofs`**, about `MCQueues`: `SentOnce`, `BackoffInBudget`, `CauseKept`,
  `HooksStand`, `PagesComplete`, `OneForAll` and `JarKept`. Again each part has an invariant of its own:
  - the retry loop (`RetryInv`) relates attempts, transmissions and the clock at each place
    of the loop;
  - batches (`BatchInv`): a request waits in the queue once (`QueuedOnce`), or a flush and an
    abort would each answer a part of it;
  - hooks (`HooksInv`): a run has called its copy of the list up to where it stands, and
    whoever was registered as a run over the array itself began has been called or comes
    later in the array (`OnItsWay`), which needs the array to have those of higher
    priority first (`InOrder`). What a removal leaves of an ordered list is a list again
    (`Without`): that there is one, and only one, is proved for lists of any length;
  - pages (`PagesInv`): what the consumer has is the first pages of the listing, the queue
    those fetched since, and behind them are the calls that still wait (`Taken`, `Waits`);
    the generator goes on only to a cursor that was not asked for (`Follow`);
  - a client's parts (`LifeInv`): who makes the jar is alone, has the lock and leaves nobody
    waiting (`OneMaker`), a chain of interceptors holds nothing twice (`Chained`), and an
    open socket is in the list that `destroy()` closes;
  - credentials (`AwsInv`): what a caller signs with is what is kept, or was about to expire
    (`Honest`), and there is one call of the provider at a time, made when nothing that
    is kept is fresh;
  - nonces (`CountsInv`): each counter points to the last authorization with its nonce, in
    their order, and all since the oldest of them are counted (`Placed`), so that of two
    authorizations with one nonce the later has the higher count, unless as many others as
    there are counters came between (`Rising`). Counts of distinct nonces are cardinalities,
    related to the counters by a bijection;
  - hashes of queries (`QueryInv`): a text has one hash and the second map has the same
    texts (`Hashed`), also when a full cache gives up its oldest; what is there while no
    timer runs, or is still to come from a digest under way, was being hashed as the cache
    was cleared (`Dropped`). Of a call, what it has sent in its attempt follows from where it
    is (`Said`), so that the text goes after the hash and once;
  - cookies (`JarInv`): the total is a cardinality. An eviction in the domain leaves room in
    the jar as well, so that one cookie goes at most for a new one (`Goes`), and the limits
    hold for any numbers of domains, names and cookies. Limits of 0, of which the
    constructor does not complain, are excluded by assumption: a jar without room would still
    take a cookie.

  Where a list or a number is built up step by step, the facts about every length come from
  the least one that lacks them (`NatFrom`, `SeqFrom`), by well-foundedness.
- **`SendPipelineProofs`**: every step of the pipeline is, for each of the three
  layers, a step of that layer's own specification or none (`UsesLayers`). From the
  layers' invariants together (`PipelineInv`), with `Stages`, which says how
  the places of a call in the three layers go together: `OneRequestPerKey`, `NothingLeftBehind`
  (no permit, slot, entry or waiter remains when all is answered), and
  `SomeoneAlwaysMoves`: as long as a call is unanswered there is one whose next step
  waits for no other call. A leader that queues waits for a permit, whoever holds
  the permit runs, and nobody who runs waits. What `NeverStuck` says in addition,
  that this step is enabled, is about ENABLED and checked by TLC.
- **`HTTPCacheProofs`**: `TypeOK`, `OneRevalidation`, `Accounted` and
  `SetWithinCapacity`. The types need to know what
  an operation has at hand where it stands (`Equipped`), and give that the clamps of
  `_delete` keep the gauges from going below zero. `OneRevalidation` needs that a
  revalidation has the mark of its key unless a `clear()` took it (`HasMark`), and that
  only a revalidation reaches the `finally` block (`InRole`). All segments but those of
  the mark and of `clear()` preserve them for the same reason, which is one lemma
  (`SameRoles`). The books agree with the storage only between operations: in the middle
  of one they owe it the keys at which the operation stands (`Owes`), and tell of every other
  key what the storage holds (`Handled`). What an operation has read of a key still holds
  (`Knows`), but for those that others have written since, on which it is `behind`; of two
  operations that owe the same key one is behind on it (`Sole`), and its next write of
  that key is the race after which nothing is claimed (`Doomed`). So operations on different
  keys may interleave in any way. The room a `set()` has made stays but for what others
  add (`Roomy`). The gauge of bytes is a sum over a finite set, whose lemmas come by
  well-founded descent on subsets.
- **`WSClientProofs`**: `TypeOK`, `OneHonestConnection`, `MessagesKept` and
  `PongTimerCurrent`, for any callers, sockets, limits and numbers of messages. That
  there is one connection says nothing of the timeouts that are still running, and one
  of them could hang up a later socket: `Joined` adds that a timeout runs exactly for
  a connecting socket with the handlers on it and that those of other sockets are left
  over from a `close()`, after which nothing is scheduled. `TimeoutRuns` holds even
  after a send has thrown, when `Joined` no longer does, so that a socket whose promise
  is settled is never the client's own. `MessagesKept` speaks of the wire only;
  `InOrder` adds that the buffer is in the order of the calls, that the wire passes a
  buffered message only if that was held back, and that whatever is in the buffer of
  an open connection has been (`HeldBack`), or the flush on the next one could reorder.
- **`GatesProofs`**, about `MCGates` and the parts in it: `LimitsHeld`,
  `ConnectionsHonest`, `NobodyStranded` and `OnlyWaitersTold`. A step of one part leaves the
  others alone (`PartsMove`), so each has an invariant of its own:
  - sessions (`SessionInv`): the pool, the timers and the usage map are about the same
    origins and a creation is counted where one is made (`BooksTrue`, `CreationsTrue`), and
    an origin for which a session is made has none unless it was emptied for another's sake
    (`NoneWhileMade`). The limit
    rests on the eviction finding someone to evict, and so on the order of use having a
    least element, which is proved for any finite set of origins;
  - rate (`RateInv`): `WithinBucket`: what was granted since any time of the past, and
    what the bucket still holds, was in a full bucket then or has been refilled since.
    The bound on one window alone is not inductive. The history ends now (`NoneLater`);
  - suite (`SuiteInv`): whoever waits for the token has a refresher that will tell it
    (`TokenAwaited`), and nobody is in its queue when there is none;
  - rooms (`TalkInv`): the last message of the buffer about a room says what the client
    believes of it (`Truthful`), unless messages are held back for want of a token, and an
    open connection has nothing else to hold back (`BufferTrue`);
  - streams (`HopInv`) and tunnels (`TunnelInv`): what runs, listens or is open is what the
    place of the hop, or of the attempt, calls for (`HopTrue`, `AttemptTrue`).

The layers' own theorems are not cited in `SendPipelineProofs`, because a theorem that comes
with an INSTANCE cannot be; what is needed of a layer is proved again there, of its steps.

Only model-checked: all liveness (`QueuedAnswered`, `Recovers`, `Terminates`,
`ConnectAnswered`, `EveryoneAnswered`), `NeverStuck` as far as it is about ENABLED,
`RequestsBuilt` (what is computed from data, where the recursion over a text or a list of
parameters and the powers of two of a backoff would need induction over data), and
`ArrivesWhole` and `KeptHonest` of `lists`, where parsers, rules of domains and lifetimes
are computed from texts and headers by recursion.

## What the models show besides

Behaviour that follows from the code and that no run states as a property, because no
document promises otherwise, or because a property of the model is stated around it.

Requests:
- in the pipeline all callers have the window of the client and a due timer of the map runs
  first; without either, an old timer deletes an entry in flight there too
  (`dedup_stale_timer`, `wiped`); one coalesced request that fails
  counts once per caller in the breaker, which is around the map (`client.ts` 2770), and
  callers with different options share one parsed response;
- a call sent before the circuit opened counts as a probe when it succeeds late
  (`circuit-breaker.ts` 389);
- the retry loop caps a Retry-After at a day, the retry interceptor at its maximum delay only;
- a response interceptor's replacement is dropped by `onBeforeResponse` (`client.ts` 4022-4026),
  `onSuccess` runs once per nested attempt, cached answers skip `throwOnError` and the hooks,
  and a synthetic response skips `validateStatus` (4271 against 4034-4040);
- a redirect to the same URL that sets a cookie is taken for a loop, credentials are applied
  again on return to the first origin, and the body of a refused redirect is not cancelled;
- a plain object with a content type of its own is not encoded and goes out empty on the Node
  transports (2606-2622; `core.ts` 2343); the client's parameters are added twice by
  `paginate()` and `graphql()`; a URL of an unknown scheme is resolved against the base
  (971-1010); `transformRequest`'s URL is not screened again;
- `extend()` passes the parent's own interceptors on, also those that were ejected; the
  `destroy()` of a child clears what it shares with its parent; a socket or jar whose making
  began before `destroy()` outlives it.

Connections:
- WebSocket: the iterator waits for ever after the connect timeout (`ws.ts` 957), which closes
  whatever socket there is by then (949); a send that throws leaves its handlers (1323) and a
  missed pong its ping interval (1398); a join that is buffered while open is sent after the
  rooms were restored, so that a room that was left is joined again; drain waiters and requests
  hear nothing of giving up after a missed pong (1421) or a constructor that throws (1028);
- HTTP/2: concurrent creations pass the limit of sessions (`core.ts` 728); an abort during the
  acquisition of a session or the draining of a redirect is not heard, and fetch's timeout is
  ignored beside a signal (472-491); a fallback sends the first request again after redirects;
- node:http: an already aborted signal is not heard (1384); a failing body rejects but does not
  destroy the request (1390); a writer that waits for "drain" waits on after the socket died
  (2232-2239);
- proxies: the connection of a dial that timed out is not closed, and bytes read ahead with the
  SOCKS reply are lost to the tunnel (`socks5.ts` 641).

Streams and bodies:
- SSE: `close()` reaches the last stream only (`sse.ts` 460-467, 499);
- a gzip body whose connection fails before its first byte reads as empty (`response.ts`
  729-741); a truncating collector and `applySizeLimit` do not cancel their source; the objects
  of a JSON stream from a cut one on are parsed as one text at the end, which fails if they
  are several (1251-1261);
- progress: a cancellation by `onDownloadProgress` never reaches the source (`client.ts`
  3852-3881); a read that is pending at a cancel clears the tracker's abort
  (`progress.ts` 400-432); `streamWithProgress` does not cancel its source.

Kept state:
- cache: `set()` may evict the entry it replaces (`cache.ts` 1068-1082); a revalidation writes
  back an entry deleted meanwhile (1166); `deserialize()` counts an entry that the adapter
  refused or that replaces another (1413); sets of different keys that
  overlap exceed the capacity by each other's entries (1457); a 304 that adds or drops no-cache
  or Vary is not heeded (1139-1164); a response overdue on arrival has its stale windows from
  then (703); an Expires that cannot be read counts as no lifetime given and ends the search
  (708);
- cookies: a jar loaded by `fromJSON()` has the default limits, so that those of the jar it
  was saved from are lost, and with them what does not fit (`cookie-store.ts` 842-873); the
  limit evicts by use and not by expiry; a deletion by Max-Age=0 skips the rules of
  prefixes (`cookie-store.ts` 417-420); exceptions of the suffix list are taken for suffixes
  (`cookie-parser.ts` 1673);
- credentials: a failed refresh refuses callers whose cached ones are still valid; signing in
  chunks resolves credentials and date twice (`aws-sigv4.ts` 1038-1041);
- GraphQL: a hash stored after `clearAPQCache` has no timer, a full cache of hashes drops its oldest
  for one that is there, the retry link does not look at the signal;
- headers: merging without append passes the guards, an empty list replaces a header by an
  empty one, `merge(self, {append: true})` never ends, and parameters of a challenge
  are read as challenges (`headers.ts` 1407-1441).

Lists and queues:
- registering with a priority in a running phase runs a handler twice (`interceptors.ts`
  248-254), a one-shot hook runs twice in overlapping runs (`lifecycle.ts` 227), and one that
  throws after `next()` dispatches twice (755-760);
- suite: a leader that times out in the cache lookup loses the slot, an aborted follower
  deletes its leader's, and a suite with retry before dedupe waits for itself;
- pagination: an abort during the delay still sends one request, and leaving a prefetching
  pager lets queued requests go on;
- logging: `flush()` does not wait for posts under way, a failed batch is lost, and a large one
  may be sent twice.

## What is not modelled, and the plan

Left out of modelled parts: a fractional `maxConcurrent` and a release without a permit; the
breaker registry and the codes of its failure filter; the HAR recorder and the metrics; the
codecs of the WebSocket client; cache adapters other than a plain store and a restart over one
that persists; documents and subscriptions of GraphQL; multipart bodies and typed
accessors; saved states of pagination and `mergePaginators`; dates and the text of
cookies, signatures and digests. Of the pure functions those that compute, format or
encode without deciding anything (hashes, base64, bars, dates) are left to unit tests.
The adapters over fetch, Deno, Bun, Workers and XMLHttpRequest hand a request to the
platform, whose behaviour is not in this code.

Next, in this order:

1. Proofs: the entries of a log (of `ArrivesWhole`), the lifetimes of responses (of
   `KeptHonest`), and what `SendPrelude` starts and ends.
2. `Exchange` inside `RetryLoop`: what each phase of the interceptors sees of a retried
   request, and the cache's operations behind it.
3. A restart: `HTTPCache` and `CookieJar` over a storage that outlives the process.
4. GraphQL subscriptions over `WSClient`.
