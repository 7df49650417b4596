----------------------------- MODULE RateLimiter -----------------------------
(***************************************************************************)
(* createRateLimitInterceptor: a token bucket.  A caller takes a token if  *)
(* there is one, else it queues until an interval timer has refilled the   *)
(* bucket.  Tokens are fractions of windowMs, so that a refill is exact;   *)
(* the code's are floating-point numbers.                                  *)
(***************************************************************************)
EXTENDS Integers, Sequences, FiniteSetsExt, Functions

CONSTANTS Callers,   \* calls of acquire()
          Limit,     \* limit
          WindowMs,  \* windowMs
          MaxQueue,  \* maxQueue; -1 stands for queue = FALSE
          MaxTime,   \* bound: time stops here
          None       \* null

VARIABLES clock,      \* now()
          tokens,     \* tokens, times windowMs
          lastRefill, \* lastRefill
          pending,    \* pending
          timer,      \* when refillTimer is next due, or None
          at,         \* where each caller is
          grants      \* history: how many had been let through at the end of each time
rateVars == <<clock, tokens, lastRefill, pending, timer, at, grants>>

Times == 0..MaxTime

TypeOK ==
  /\ clock \in Times /\ lastRefill \in 0..clock
  /\ tokens \in 0..(Limit * WindowMs)
  /\ pending \in Seq(Callers) /\ Len(pending) <= IF MaxQueue < 0 THEN 0 ELSE MaxQueue
  /\ timer \in Nat \cup {None}
  /\ at \in [Callers -> {"new", "queued", "through", "refused"}]
  /\ grants \in [Times -> Nat]

Init ==
  /\ clock = 0 /\ lastRefill = 0 /\ tokens = Limit * WindowMs
  /\ pending = <<>> /\ timer = None
  /\ at = [c \in Callers |-> "new"] /\ grants = [t \in Times |-> 0]

----------------------------------------------------------------------------
\* What refill() makes of tokens.
\* Fault: the bucket has no bottom line: it fills for ever.
Overfilled == tokens + (clock - lastRefill) * Limit

Refilled == Min({Limit * WindowMs, tokens + (clock - lastRefill) * Limit})

\* Math.ceil(windowMs / limit)
Interval == (WindowMs + Limit - 1) \div Limit

\* n callers are let through.
Grant(n) == grants' = [t \in Times |-> IF t < clock THEN grants[t] ELSE grants[t] + n]

\* acquire(): a newcomer is served before the queue, if there is a token.
Acquire(c) ==
  /\ at[c] = "new"
  /\ lastRefill' = clock
  /\ \/ /\ Refilled >= WindowMs
        /\ tokens' = Refilled - WindowMs
        /\ at' = [at EXCEPT ![c] = "through"] /\ Grant(1)
        /\ UNCHANGED <<pending, timer>>
     \/ /\ Refilled < WindowMs /\ Len(pending) < MaxQueue
        /\ tokens' = Refilled
        /\ at' = [at EXCEPT ![c] = "queued"] /\ pending' = Append(pending, c)
        /\ timer' = IF timer = None THEN clock + Interval ELSE timer
        /\ UNCHANGED grants
     \/ /\ Refilled < WindowMs /\ Len(pending) >= MaxQueue
        /\ tokens' = Refilled
        /\ at' = [at EXCEPT ![c] = "refused"]
        /\ UNCHANGED <<pending, timer, grants>>
  /\ UNCHANGED clock

\* The interval timer, as late as it may be: refill, serve the queue in its order, and stop
\* once it is empty.
RefillTimer ==
  /\ timer # None /\ timer <= clock
  /\ lastRefill' = clock
  /\ LET n == Min({Len(pending), Refilled \div WindowMs})
     IN /\ tokens' = Refilled - n * WindowMs
        /\ pending' = SubSeq(pending, n + 1, Len(pending))
        /\ at' = [c \in Callers |-> IF \E i \in 1..n : pending[i] = c THEN "through" ELSE at[c]]
        /\ Grant(n)
        /\ timer' = IF n = Len(pending) THEN None ELSE clock + Interval
  /\ UNCHANGED clock

Tick == clock < MaxTime /\ clock' = clock + 1
        /\ UNCHANGED <<tokens, lastRefill, pending, timer, at, grants>>

Next == (\E c \in Callers : Acquire(c)) \/ RefillTimer \/ Tick
Spec == Init /\ [][Next]_rateVars

----------------------------------------------------------------------------
\* Over any stretch of time no more callers are let through than the bucket holds and the
\* stretch refills, whichever way they come: at once, from the queue, or past it.
Before(t) == IF t = 0 THEN 0 ELSE grants[t - 1]

RateHeld ==
  \A from, to \in 0..clock :
    from <= to => (grants[to] - Before(from)) * WindowMs <= Limit * WindowMs + (to - from) * Limit

\* Whoever waits has a timer that will serve it.
QueueHasTimer == \A c \in Callers : at[c] = "queued" => timer # None /\ c \in Range(pending)
=============================================================================
