------------------------------- MODULE Backoff -------------------------------
(***************************************************************************)
(* How long a retry waits: what a Retry-After header says, and the         *)
(* exponential delay with its jitter and its maximum, as the client        *)
(* computes them (client.ts) and, once more, the retry interceptor         *)
(* (interceptors.ts).                                                      *)
(*                                                                         *)
(* A second is PerSecond milliseconds, and a day and the largest exponent  *)
(* are constants.  Text that is neither digits nor one of the three forms  *)
(* of a date is "malformed", whatever Date.parse() would make of it.       *)
(***************************************************************************)
EXTENDS Integers

CONSTANTS PerSecond,    \* 1000
          Day,          \* MAX_RETRY_AFTER_SEC
          MaxExponent,  \* 31
          MaxNumber     \* bound: numbers of a header and of a configuration

VARIABLES config,   \* baseDelayMs, maxDelayMs, and the jitter in percent
          header,   \* Retry-After
          attempt,  \* the attempt that has failed, from 1
          delay     \* the delay before the next, or -1
delayVars == <<config, header, attempt, delay>>

Configs == [base : 0..MaxNumber, max : 0..MaxNumber, jitter : {0, 50, 100}]

\* A date is told in milliseconds from now.
Headers == [kind : {"none", "malformed"}] \cup [kind : {"seconds"}, n : 0..MaxNumber]
           \cup [kind : {"date"}, n : -2..MaxNumber]

Least(a, b) == IF a < b THEN a ELSE b
AtLeastZero(a) == IF a < 0 THEN 0 ELSE a

\* Fault: the date is read by Date.parse(), to which almost everything is one long ago.
ParsedLeniently(h) ==
  CASE h.kind = "seconds"   -> [delay |-> h.n]
    [] h.kind = "date"      -> [date |-> h.n]
    [] h.kind = "malformed" -> [date |-> -1]
    [] OTHER                -> <<>>

\* parseRetryAfter(): seconds, a date, or nothing.
Parsed(h) ==
  CASE h.kind = "seconds" -> [delay |-> h.n]
    [] h.kind = "date"    -> [date |-> h.n]
    [] OTHER              -> <<>>

\* What the server asks for, as a set with at most one member.
RetryAfter(h) ==
  LET p == Parsed(h)
  IN  CASE DOMAIN p = {"delay"} -> {Least(p.delay, Day) * PerSecond}
        [] DOMAIN p = {"date"}  -> {AtLeastZero(Least(p.date, Day * PerSecond))}
        [] OTHER                -> {}

RetryAfterInterceptor(h) ==
  CASE h.kind = "seconds" -> {h.n * PerSecond}
    [] h.kind = "date"    -> {AtLeastZero(h.n)}
    [] OTHER              -> {}

\* Math.random() is whatever it may be.
Jittered(c, exp) == {Least(exp + j, c.max) : j \in 0..((exp * c.jitter) \div 100)}

Delays(c, h, n) ==
  IF RetryAfter(h) # {} THEN {Least(ms, c.max) : ms \in RetryAfter(h)}
  ELSE LET exp == c.base * 2^(Least(n, MaxExponent) - 1)
       IN  IF exp > c.max THEN {c.max} ELSE Jittered(c, exp)

DelaysInterceptor(c, h, n) ==
  IF RetryAfterInterceptor(h) # {} THEN {Least(ms, c.max) : ms \in RetryAfterInterceptor(h)}
  ELSE Jittered(c, Least(c.base * 2^(n - 1), c.max))

----------------------------------------------------------------------------
Init == config \in Configs /\ header \in Headers /\ attempt = 1 /\ delay = -1

Fail ==
  /\ attempt <= MaxExponent + 1
  /\ delay' \in Delays(config, header, attempt)
  /\ attempt' = attempt + 1
  /\ UNCHANGED <<config, header>>

Next == Fail

Spec == Init /\ [][Next]_delayVars

----------------------------------------------------------------------------
\* No retry waits longer than the maximum, whatever the jitter adds and the server asks for,
\* and none is sent before the server asks for it if the maximum and a day allow that; a
\* header that says nothing does not shorten the delay (client.ts 1441-1487, headers.ts
\* 1944-1971).  Without jitter a later attempt never waits less.  The interceptor waits as the
\* client does (interceptors.ts 643-674), as long as the maximum is less than a day and than
\* the largest exponent's delay.
DelaysHold ==
  delay # -1 =>
    LET last == attempt - 1
        ask  == IF header.kind = "seconds" THEN header.n * PerSecond ELSE header.n
    IN /\ delay \in 0..config.max
       /\ header.kind \in {"seconds", "date"} =>
            (delay < ask => delay \in {config.max, Day * PerSecond})
       /\ header.kind \in {"none", "malformed"} => delay >= Least(config.base, config.max)
       /\ \A d \in Delays([config EXCEPT !.jitter = 0], header, last),
             e \in Delays([config EXCEPT !.jitter = 0], header, attempt) : d <= e
       /\ config.max <= Day * PerSecond /\ (config.base > 0 => config.max <= 2^(MaxExponent - 1)) =>
            Delays(config, header, last) = DelaysInterceptor(config, header, last)
=============================================================================
