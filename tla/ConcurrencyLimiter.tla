------------------------ MODULE ConcurrencyLimiter ------------------------
(***************************************************************************)
(* The counting semaphore that bounds how many logical requests a client   *)
(* runs at once (class ConcurrencyLimiter), together with the only code    *)
(* that uses it: Kinetex._executeWithRetry, which takes a permit, runs     *)
(* every attempt of the request and gives the permit back in a `finally`,  *)
(* and Kinetex.destroy, which drains the queue.                            *)
(*                                                                         *)
(* A call of acquire that is granted resolves a promise; the caller runs   *)
(* only when the microtask of that promise runs.  Phase "granted" is the   *)
(* time between the two, in which any other code may run.                  *)
(***************************************************************************)
EXTENDS Naturals, Sequences, FiniteSets

CONSTANTS Requests,        \* the callers of send()
          MaxConcurrent,   \* cfg.maxConcurrent
          Queueing,        \* cfg.queue
          MaxQueue         \* cfg.maxQueue, a number larger than any queue for Infinity

ASSUME LimiterAssumption ==
  /\ IsFiniteSet(Requests)
  /\ MaxConcurrent \in Nat \ {0}
  /\ Queueing \in BOOLEAN
  /\ MaxQueue \in Nat

VARIABLES active,    \* number of permits held, as the limiter counts them
          peak,      \* highest value of active
          waiters,   \* the queue of callers waiting for a permit
          phase,     \* where each caller's request stands
          aborted    \* the callers whose AbortSignal has fired
limiterVars == <<active, peak, waiters, phase, aborted>>

Holding == {"granted", "running"}
Settled == {"done", "aborted", "refused", "drained"}
Phases  == {"idle", "waiting"} \cup Holding \cup Settled

\* Types of the variables; the counters stay within the configured limit.
TypeOK ==
  /\ active \in 0..MaxConcurrent
  /\ peak \in active..MaxConcurrent
  /\ waiters \in Seq(Requests)
  /\ phase \in [Requests -> Phases]
  /\ aborted \in SUBSET Requests

Init ==
  /\ active = 0
  /\ peak = 0
  /\ waiters = <<>>
  /\ phase = [r \in Requests |-> "idle"]
  /\ aborted = {}

----------------------------------------------------------------------------
\* The conditions and the updates the handlers are made of.

\* Fault: the limit compared with <= .
PermitFreeAtLimit == active <= MaxConcurrent

PermitFree   == active < MaxConcurrent
QueueHasRoom == Queueing /\ Len(waiters) < MaxQueue
InQueue(r)   == \E i \in DOMAIN waiters : waiters[i] = r
MoveTo(r, p) == phase' = [phase EXCEPT ![r] = p]

\* this.waiters.splice(idx, 1)
Splice(s, i) == SubSeq(s, 1, i - 1) \o SubSeq(s, i + 1, Len(s))

\* The high-water mark after active has become n.
RaisedPeak(n) == IF n > peak THEN n ELSE peak

----------------------------------------------------------------------------
\* acquire(signal), called by a request that has not asked yet.

\* The signal has already fired: refused before a permit is looked at.
AcquireAborted(r) ==
  /\ phase[r] = "idle"
  /\ r \in aborted
  /\ MoveTo(r, "aborted")
  /\ UNCHANGED <<active, peak, waiters, aborted>>

\* A permit is free: it is taken at once.
AcquireFree(r) ==
  /\ phase[r] = "idle"
  /\ r \notin aborted
  /\ PermitFree
  /\ active' = active + 1
  /\ peak' = RaisedPeak(active + 1)
  /\ MoveTo(r, "granted")
  /\ UNCHANGED <<waiters, aborted>>

\* No permit, and the queue is off or full: ECONCURRENCY.
AcquireRefused(r) ==
  /\ phase[r] = "idle"
  /\ r \notin aborted
  /\ ~PermitFree
  /\ ~QueueHasRoom
  /\ MoveTo(r, "refused")
  /\ UNCHANGED <<active, peak, waiters, aborted>>

\* No permit: the caller joins the queue with its abort listener attached.
AcquireQueued(r) ==
  /\ phase[r] = "idle"
  /\ r \notin aborted
  /\ ~PermitFree
  /\ QueueHasRoom
  /\ waiters' = Append(waiters, r)
  /\ MoveTo(r, "waiting")
  /\ UNCHANGED <<active, peak, aborted>>

Acquire(r) == AcquireAborted(r) \/ AcquireFree(r) \/ AcquireRefused(r) \/ AcquireQueued(r)

\* The microtask of a granted acquire runs: the request's attempts begin.
Resume(r) ==
  /\ phase[r] = "granted"
  /\ MoveTo(r, "running")
  /\ UNCHANGED <<active, peak, waiters, aborted>>

----------------------------------------------------------------------------
\* release(), called from the `finally` of a request that settles.

\* Nobody waits: the count goes down (and stays at 0 when nothing is held).
ReleaseUnused(r) ==
  /\ phase[r] = "running"
  /\ waiters = <<>>
  /\ active' = IF active = 0 THEN 0 ELSE active - 1
  /\ MoveTo(r, "done")
  /\ UNCHANGED <<peak, waiters, aborted>>

\* Fault: the youngest waiter is served first.
ReleaseTransferLast(r) ==
  /\ phase[r] = "running"
  /\ waiters # <<>>
  /\ waiters' = Splice(waiters, Len(waiters))
  /\ phase' = [phase EXCEPT ![r] = "done", ![waiters[Len(waiters)]] = "granted"]
  /\ UNCHANGED <<active, peak, aborted>>

\* Someone waits: the permit passes to the head of the queue.  The waiter's
\* abort listener is detached, and `active` is deliberately left alone.
ReleaseTransfer(r) ==
  /\ phase[r] = "running"
  /\ waiters # <<>>
  /\ active # 0
  /\ waiters' = Tail(waiters)
  /\ phase' = [phase EXCEPT ![r] = "done", ![Head(waiters)] = "granted"]
  /\ UNCHANGED <<active, peak, aborted>>

\* Fault: release() only counts, and wakes nobody.
SettleSilently(r) ==
  /\ phase[r] = "running"
  /\ active' = active - 1
  /\ MoveTo(r, "done")
  /\ UNCHANGED <<peak, waiters, aborted>>

Settle(r) == ReleaseUnused(r) \/ ReleaseTransfer(r)

----------------------------------------------------------------------------
\* The caller's signal fires.

\* Fault: the caller is rejected but its waiter stays in the queue.
AbortQueuedKept(r) ==
  /\ r \notin aborted
  /\ phase[r] = "waiting"
  /\ MoveTo(r, "aborted")
  /\ aborted' = aborted \cup {r}
  /\ UNCHANGED <<active, peak, waiters>>

\* While queued: the listener takes the waiter out of the queue and rejects it.
AbortQueued(r) ==
  /\ r \notin aborted
  /\ phase[r] = "waiting"
  /\ \E i \in DOMAIN waiters : waiters[i] = r /\ waiters' = Splice(waiters, i)
  /\ MoveTo(r, "aborted")
  /\ aborted' = aborted \cup {r}
  /\ UNCHANGED <<active, peak>>

\* At any other time the limiter has no listener on it.
AbortElsewhere(r) ==
  /\ r \notin aborted
  /\ phase[r] \in {"idle"} \cup Holding
  /\ aborted' = aborted \cup {r}
  /\ UNCHANGED <<active, peak, waiters, phase>>

\* drain(reason), called by destroy(): every waiter is rejected, permits stay held.
Drain ==
  /\ waiters # <<>>
  /\ waiters' = <<>>
  /\ phase' = [r \in Requests |-> IF InQueue(r) THEN "drained" ELSE phase[r]]
  /\ UNCHANGED <<active, peak, aborted>>

\* The caller has its answer and may send another request, with a new signal.
Again(r) ==
  /\ phase[r] \in Settled
  /\ MoveTo(r, "idle")
  /\ aborted' = aborted \ {r}
  /\ UNCHANGED <<active, peak, waiters>>

Next ==
  \/ \E r \in Requests :
       \/ Acquire(r) \/ Resume(r) \/ Settle(r)
       \/ AbortQueued(r) \/ AbortElsewhere(r) \/ Again(r)
  \/ Drain

\* The event loop runs every microtask, and every attempt ends: it has a
\* deadline timer and the number of attempts is bounded.
Fairness == \A r \in Requests : WF_limiterVars(Resume(r)) /\ WF_limiterVars(Settle(r))

Spec     == Init /\ [][Next]_limiterVars
FairSpec == Spec /\ Fairness

----------------------------------------------------------------------------
\* Properties.

\* The requests that hold a permit, whatever the limiter's counter says.
Holders == {r \in Requests : phase[r] \in Holding}

\* The counter is the number of requests that will call release(): no abort,
\* drain, refusal or hand-over leaks a permit or frees one twice (release leaves
\* `active` alone when it resolves a waiter, and the `finally` releases only
\* what acquire granted).
PermitsExact == active = Cardinality(Holders)

\* The queue holds exactly the requests waiting for a permit, each of them once:
\* no abort leaves a dead waiter that would swallow a permit handed to it.
QueueExact ==
  /\ \A r \in Requests : phase[r] = "waiting" <=> InQueue(r)
  /\ \A i, j \in DOMAIN waiters : waiters[i] = waiters[j] => i = j

\* Nobody waits while a permit is free, so a release is the only wake-up needed.
WorkConserving == waiters # <<>> => active = MaxConcurrent

\* Permits and queue together: through acquire, hand-over, abort and drain none of the
\* three is lost (interceptors.ts 1641-1732).
PermitsAndQueue == PermitsExact /\ QueueExact /\ WorkConserving

\* A permit is granted in order of arrival: to the head of the queue, or to a
\* newcomer only when nobody waits.
NoOvertaking ==
  [][\A r \in Requests :
       (phase[r] \notin Holding /\ phase'[r] \in Holding)
         => \/ waiters = <<>> /\ phase[r] = "idle"
            \/ waiters # <<>> /\ r = Head(waiters)]_limiterVars

\* Every queued request gets a permit or an error.
QueuedAnswered == \A r \in Requests : phase[r] = "waiting" ~> phase[r] # "waiting"

\* The limiter implements the semaphore, its holders being the requests that
\* have been granted a permit and have not released it.
Sem == INSTANCE Semaphore WITH
         Callers <- Requests, Permits <- MaxConcurrent,
         holders <- Holders, line <- waiters
ImplementsSemaphore == Sem!SemSpec
=============================================================================
