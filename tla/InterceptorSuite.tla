--------------------------- MODULE InterceptorSuite ---------------------------
(***************************************************************************)
(* The interceptor pipeline (InterceptorManager._run with its phases) with *)
(* the interceptors that createInterceptorSuite registers, in that order:  *)
(* timeout, deduplication, cache, authorization, retry.  Logging, HAR and  *)
(* metrics observe only; the rate limit has a module of its own.           *)
(*                                                                         *)
(* All requests are reads of the same resource, so they have one dedupe    *)
(* key.  A dispatcher gives a response or an error, and an error when its  *)
(* signal has aborted.  Whether the cache has a fresh answer is a choice.  *)
(***************************************************************************)
EXTENDS Naturals, FiniteSets

CONSTANTS Requests,    \* the calls of execute()
          MaxRetries,  \* retry.maxRetries
          MaxQueue,    \* auth.maxQueue
          None         \* null

Statuses == {"ok", "unauthorized", "busy"}   \* 200, 401, 503

VARIABLES at,           \* the await at which each pipeline stands
          attempt,      \* ctx.attempt, counted as far as it is compared
          aborted,      \* ctx.aborted, and the signal of ctx.request with it
          timer,        \* the pipelines whose timeout is set
          keyed,        \* ctx.store holds the dedupe key
          authRetried,  \* ctx.request.meta.__authRetried
          status,       \* ctx.response
          slot,         \* inflight.get(key): the waiters, or None
          refresher,    \* refreshPromise: the pipeline that began it
          authQueue,    \* queue: the pipelines that wait for the token
          cooling,      \* a refresh has failed less than refreshRetryDelay ago
          lateHit       \* history: the cache has answered a leader that had timed out
context   == <<at, attempt, aborted, timer, keyed, authRetried, status>>
auth      == <<refresher, authQueue, cooling>>
suiteVars == <<context, slot, auth, lateHit>>

Places == {"idle", "keying", "queued", "preparing", "dispatched", "released", "answered",
           "refreshing", "backoff", "rejected", "done", "failed"}

TypeOK ==
  /\ at \in [Requests -> Places]
  /\ attempt \in [Requests -> 0..(MaxRetries + 1)]
  /\ aborted \subseteq Requests /\ timer \subseteq Requests
  /\ keyed \subseteq Requests /\ authRetried \subseteq Requests
  /\ status \in [Requests -> Statuses \cup {None}]
  /\ slot \in (SUBSET Requests) \cup {None}
  /\ refresher \in Requests \cup {None} /\ authQueue \subseteq Requests
  /\ Cardinality(authQueue) <= MaxQueue
  /\ cooling \in BOOLEAN /\ lateHit \in BOOLEAN

Init ==
  /\ at = [r \in Requests |-> "idle"] /\ attempt = [r \in Requests |-> 0]
  /\ aborted = {} /\ timer = {} /\ keyed = {} /\ authRetried = {}
  /\ status = [r \in Requests |-> None]
  /\ slot = None /\ refresher = None /\ authQueue = {} /\ cooling = FALSE
  /\ lateHit = FALSE

----------------------------------------------------------------------------
\* _run: the pipelines R begin, or begin again.  One that has timed out skips the
\* interceptors; of the others the timeout is set and the key is computed.
Run(R) ==
  /\ at' = [r \in Requests |-> IF r \notin R THEN at[r]
                               ELSE IF r \in aborted THEN "dispatched" ELSE "keying"]
  /\ attempt' = [r \in Requests |-> IF r \in R /\ attempt[r] <= MaxRetries
                                    THEN attempt[r] + 1 ELSE attempt[r]]
  /\ timer' = timer \cup (R \ aborted)
  /\ status' = [r \in Requests |-> IF r \in R THEN None ELSE status[r]]

Execute(r) ==
  /\ at[r] = "idle"
  /\ Run({r})
  /\ UNCHANGED <<aborted, keyed, authRetried, slot, auth, lateHit>>

\* Where the pipelines stand once those of W have been told.
Told(W, place) == [r \in Requests |-> IF r \in W THEN place ELSE at[r]]

\* The waiters of the slot, whoever's it is by now, if r has a key.
Waiters(r) == IF r \in keyed /\ slot # None THEN slot ELSE {}

\* Fault: a slot without waiters is kept.
ReleasedSlotBusy(r) == IF r \in keyed /\ slot # None /\ slot # {} THEN None ELSE slot

ReleasedSlot(r) == IF r \in keyed THEN None ELSE slot

\* The response phase: the timeout is cleared, the slot goes and its waiters are given
\* the response; cache, authorization and retry follow.  Skipped if it has timed out.
ResponsePhase(r, s) ==
  IF r \in aborted
    THEN /\ at' = [at EXCEPT ![r] = "done"]
         /\ UNCHANGED <<status, timer, slot>>
    ELSE /\ at' = [Told(Waiters(r), "released") EXCEPT ![r] = "answered"]
         /\ status' = [q \in Requests |-> IF q \in Waiters(r) \cup {r} THEN s ELSE status[q]]
         /\ timer' = timer \ {r}
         /\ slot' = ReleasedSlot(r)

\* The error phase: the timeout is cleared, the slot goes and its waiters are rejected;
\* the retry interceptor signals another run, after a delay.
MayRetry(r) == attempt[r] <= MaxRetries

ErrorPhase(r) ==
  /\ at' = [Told(Waiters(r) \ {r}, "rejected")
              EXCEPT ![r] = IF MayRetry(r) THEN "backoff" ELSE "failed"]
  /\ timer' = timer \ {r}
  /\ slot' = ReleasedSlot(r)
  /\ status' = [status EXCEPT ![r] = None]

----------------------------------------------------------------------------
\* The key is there: the request leads, waits, or finds that it has timed out.
Key(r) ==
  /\ at[r] = "keying"
  /\ \/ /\ slot = None
        /\ keyed' = keyed \cup {r} /\ slot' = {}
        /\ at' = [at EXCEPT ![r] = IF r \in aborted THEN "dispatched" ELSE "preparing"]
     \/ /\ slot # None /\ r \notin aborted
        /\ keyed' = keyed \cup {r} /\ slot' = slot \cup {r}
        /\ at' = [at EXCEPT ![r] = "queued"]
     \/ \* the promise is rejected, and the error phase has yet to come
        /\ slot # None /\ r \in aborted
        /\ keyed' = keyed \cup {r} /\ UNCHANGED slot
        /\ at' = [at EXCEPT ![r] = "rejected"]
  /\ UNCHANGED <<attempt, aborted, timer, authRetried, status, auth, lateHit>>

\* The cache and getToken(): a fresh answer, an error, or on to the dispatcher.
Prepare(r) ==
  /\ at[r] = "preparing"
  /\ \/ ResponsePhase(r, "ok") /\ lateHit' = (lateHit \/ r \in aborted)
     \/ ErrorPhase(r) /\ UNCHANGED lateHit
     \/ /\ at' = [at EXCEPT ![r] = "dispatched"]
        /\ UNCHANGED <<timer, slot, status, lateHit>>
  /\ UNCHANGED <<attempt, aborted, keyed, authRetried, auth>>

\* The dispatcher answers.
Dispatch(r) ==
  /\ at[r] = "dispatched"
  /\ \/ r \notin aborted /\ \E s \in Statuses : ResponsePhase(r, s)
     \/ ErrorPhase(r)
  /\ UNCHANGED <<attempt, aborted, keyed, authRetried, auth, lateHit>>

\* A waiter goes on with the leader's response, or with its error.
Released(r) ==
  /\ at[r] = "released"
  /\ ResponsePhase(r, status[r])
  /\ UNCHANGED <<attempt, aborted, keyed, authRetried, auth, lateHit>>

Rejected(r) ==
  /\ at[r] = "rejected"
  /\ ErrorPhase(r)
  /\ UNCHANGED <<attempt, aborted, keyed, authRetried, auth, lateHit>>

\* The timeout: a waiter leaves the slot, and its promise is rejected.  It does not fire
\* between the settling of a promise and what awaits it.
\* Fault: it stays among the waiters.
LeaveSlotNot(r) == slot

LeaveSlot(r) == IF at[r] = "queued" THEN slot \ {r} ELSE slot

TimesOut(r) ==
  /\ r \in timer /\ at[r] \notin {"released", "rejected"}
  /\ timer' = timer \ {r}
  /\ aborted' = aborted \cup {r}
  /\ slot' = LeaveSlot(r)
  /\ at' = IF at[r] = "queued" THEN [at EXCEPT ![r] = "rejected"] ELSE at
  /\ UNCHANGED <<attempt, keyed, authRetried, status, auth, lateHit>>

----------------------------------------------------------------------------
\* The authorization interceptor, then the retry interceptor, look at the response.

Unauthorized(r) == status[r] = "unauthorized" /\ r \notin authRetried

Answer(r) ==
  /\ at[r] = "answered" /\ ~Unauthorized(r)
  /\ at' = [at EXCEPT ![r] = IF status[r] = "busy" /\ MayRetry(r) THEN "backoff" ELSE "done"]
  /\ UNCHANGED <<attempt, aborted, timer, keyed, authRetried, status, slot, auth, lateHit>>

\* A refresh has failed recently, or the queue is full.
RefreshRefused(r) ==
  /\ at[r] = "answered" /\ Unauthorized(r)
  /\ cooling \/ (refresher # None /\ Cardinality(authQueue) >= MaxQueue)
  /\ ErrorPhase(r)
  /\ UNCHANGED <<attempt, aborted, keyed, authRetried, auth, lateHit>>

RefreshWaits(r) ==
  /\ at[r] = "answered" /\ Unauthorized(r) /\ ~cooling
  /\ IF refresher = None
       THEN refresher' = r /\ UNCHANGED authQueue
       ELSE /\ Cardinality(authQueue) < MaxQueue
            /\ authQueue' = authQueue \cup {r} /\ UNCHANGED refresher
  /\ at' = [at EXCEPT ![r] = "refreshing"]
  /\ UNCHANGED <<attempt, aborted, timer, keyed, authRetried, status, slot, cooling, lateHit>>

\* Whom the refresh tells of its end.

WaitingForToken == {refresher} \cup authQueue

\* refreshToken() gives a token: all run again, with it.
Refreshed ==
  /\ refresher # None
  /\ Run(WaitingForToken)
  /\ authRetried' = authRetried \cup WaitingForToken
  /\ refresher' = None /\ authQueue' = {} /\ cooling' = FALSE
  /\ UNCHANGED <<aborted, keyed, slot, lateHit>>

\* It gives none: all keep the response.
NoToken ==
  /\ refresher # None
  /\ at' = Told(WaitingForToken, "done")
  /\ refresher' = None /\ authQueue' = {} /\ cooling' = FALSE
  /\ UNCHANGED <<attempt, aborted, timer, keyed, authRetried, status, slot, lateHit>>

\* It fails: all go into the error phase.
RefreshFails ==
  /\ refresher # None
  /\ at' = Told(WaitingForToken, "rejected")
  /\ refresher' = None /\ authQueue' = {} /\ cooling' = TRUE
  /\ UNCHANGED <<attempt, aborted, timer, keyed, authRetried, status, slot, lateHit>>

Cools == cooling /\ cooling' = FALSE /\ UNCHANGED <<context, slot, refresher, authQueue, lateHit>>

\* The delay of a retry is over.
Again(r) ==
  /\ at[r] = "backoff"
  /\ Run({r})
  /\ UNCHANGED <<aborted, keyed, authRetried, slot, auth, lateHit>>

Next ==
  \/ \E r \in Requests :
       \/ Execute(r) \/ Key(r) \/ Prepare(r) \/ Dispatch(r) \/ Released(r) \/ Rejected(r)
       \/ TimesOut(r) \/ Answer(r) \/ RefreshRefused(r) \/ RefreshWaits(r) \/ Again(r)
  \/ Refreshed \/ NoToken \/ RefreshFails \/ Cools

Spec == Init /\ [][Next]_suiteVars

----------------------------------------------------------------------------
\* Every wait has somebody who ends it: whatever times out, fails, is rejected for
\* another's sake or runs again, the slot has a pipeline on its way that will release it,
\* a read that waits is among the slot's waiters, and one that waits for a token is told.
\* It rests on the order of the suite: the dedupe interceptor sees a response or an
\* error before the interceptors that run the pipeline again (interceptors.ts 2103, 2122).
\* Excepted is the one way in which the code does lose a slot: the timeout fires while the
\* leader asks the cache, and the response phase of a hit is cut short (line 479).
NobodyStranded ==
  /\ slot # None => lateHit \/ \E r \in keyed : at[r] \in {"preparing", "dispatched"}
  /\ \A r \in Requests :
       /\ at[r] = "queued" => slot # None /\ r \in slot
       /\ at[r] = "refreshing" => refresher # None /\ r \in WaitingForToken

\* Only a read that waits is among a slot's waiters, and none of them leads it: what one
\* read's answer, failure or timeout does to others, it does to those that expect it.
OnlyWaitersTold == slot # None => \A r \in slot : at[r] = "queued"
=============================================================================
