----------------------------- MODULE GatesProofs -----------------------------
(***************************************************************************)
(* Proofs about the parts a request may have to pass: the interceptor      *)
(* suite, the rate limiter, the talk over a WebSocket, the HTTP/2 sessions *)
(* and streams, and the connections through a proxy.  Each part has an     *)
(* inductive invariant of its own; that the others move leaves it alone.   *)
(***************************************************************************)
EXTENDS MCGates, FiniteSetTheorems, WellFoundedInduction, TLAPS

\* A step of the whole is a step of one part, or leaves it as it is.
OnlyOf(part, vars) == part \/ UNCHANGED vars

LEMMA PartsMove ==
  ASSUME [Next]_gatesVars
  PROVE  /\ OnlyOf(Sessions!Next, sessionVars) /\ OnlyOf(Streams!Next, streamVars)
         /\ OnlyOf(Proxied!Next, proxyVars) /\ OnlyOf(Talk!Next, talkVars)
         /\ OnlyOf(Suite!Next, suiteVars) /\ OnlyOf(Rate!Next, rateVars)
  BY Zenon DEF Next, gatesVars, connections, limits, OnlyOf

\* The parts count as this module does.
LEMMA SameCount == ASSUME NEW S PROVE Suite!Cardinality(S) = Cardinality(S)
                                      /\ Sessions!Cardinality(S) = Cardinality(S)
  BY DEF Suite!Cardinality, Sessions!Cardinality, Cardinality

----------------------------------------------------------------------------
(* The interceptor suite.                                                  *)

\* Only a request that waits for the token is told of it, and nobody does when none is fetched.
TokenAwaited ==
  /\ \A r \in Requests : r = refresher \/ r \in authQueue => at[r] = "refreshing"
  /\ refresher = None => authQueue = {}

SuiteInv == Suite!TypeOK /\ Suite!OnlyWaitersTold /\ Suite!NobodyStranded /\ TokenAwaited

LEMMA SuiteInit == Init => SuiteInv
<1>. SUFFICES ASSUME Suite!Init PROVE SuiteInv
  BY DEF Init
<1>. USE DEF Suite!Init
<1>1. Suite!TypeOK
  <2>1. attempt \in [Requests -> 0..(MaxRetries + 1)] /\ Suite!Cardinality(authQueue) <= AuthQueue
    BY GatesAssumption, FS_EmptySet, SameCount
  <2>. QED  BY <2>1 DEF Suite!TypeOK, Suite!Places
<1>. QED
  BY <1>1, GatesAssumption DEF SuiteInv, Suite!OnlyWaitersTold, Suite!NobodyStranded, TokenAwaited

\* Pipelines that begin, or begin again, had no part in the slot and wait for no token.
LEMMA RunKept ==
  ASSUME SuiteInv, NEW R \in SUBSET Requests, Suite!Run(R), UNCHANGED <<aborted, slot, lateHit, keyed>>,
         \A r \in R : at[r] \in {"idle", "backoff", "refreshing"},
         \/ UNCHANGED <<refresher, authQueue>> /\ \A r \in R : at[r] # "refreshing"
         \/ refresher' = None /\ authQueue' = {} /\ R = {r \in Requests : at[r] = "refreshing"},
         cooling' \in BOOLEAN, authRetried' \subseteq Requests
  PROVE  SuiteInv'
<1>1. /\ \A r \in R : at'[r] \in {"dispatched", "keying"}
      /\ \A r \in Requests \ R : at'[r] = at[r]
      /\ at' \in [Requests -> Suite!Places]
  BY DEF Suite!Run, SuiteInv, Suite!TypeOK, Suite!Places
<1>2. attempt' \in [Requests -> 0..(MaxRetries + 1)]
  <2>1. ASSUME NEW r \in Requests, attempt[r] <= MaxRetries PROVE attempt[r] + 1 \in 0..(MaxRetries + 1)
    BY <2>1, GatesAssumption DEF SuiteInv, Suite!TypeOK
  <2>. QED  BY <2>1 DEF Suite!Run, SuiteInv, Suite!TypeOK
<1>3. Suite!TypeOK'
  <2>1. Suite!Cardinality(authQueue') <= AuthQueue
    <3>1. Suite!Cardinality({}) <= AuthQueue /\ Suite!Cardinality(authQueue) <= AuthQueue
      BY FS_EmptySet, SameCount, GatesAssumption DEF SuiteInv, Suite!TypeOK
    <3>. QED  BY <3>1
  <2>2. status' \in [Requests -> Suite!Statuses \cup {None}] /\ timer' \subseteq Requests
    BY DEF Suite!Run, SuiteInv, Suite!TypeOK
  <2>3. slot' \in (SUBSET Requests) \cup {None} /\ refresher' \in Requests \cup {None}
        /\ authQueue' \subseteq Requests /\ aborted' \subseteq Requests /\ keyed' \subseteq Requests
        /\ lateHit' \in BOOLEAN
    BY DEF SuiteInv, Suite!TypeOK
  <2>. QED  BY <1>1, <1>2, <2>1, <2>2, <2>3 DEF Suite!TypeOK
<1>4. Suite!OnlyWaitersTold'
  BY <1>1 DEF SuiteInv, Suite!OnlyWaitersTold, Suite!TypeOK
<1>5. Suite!NobodyStranded'
  <2>1. slot' # None => lateHit' \/ \E r \in keyed' : at'[r] \in {"preparing", "dispatched"}
    BY <1>1 DEF SuiteInv, Suite!NobodyStranded, Suite!TypeOK
  <2>2. ASSUME NEW r \in Requests, at'[r] = "queued" PROVE slot' # None /\ r \in slot'
    BY <1>1, <2>2 DEF SuiteInv, Suite!NobodyStranded
  <2>3. ASSUME NEW r \in Requests, at'[r] = "refreshing"
        PROVE  refresher' # None /\ r \in Suite!WaitingForToken'
    BY <1>1, <2>3 DEF SuiteInv, Suite!NobodyStranded, Suite!WaitingForToken
  <2>. QED  BY <2>1, <2>2, <2>3 DEF Suite!NobodyStranded
<1>6. TokenAwaited'
  BY <1>1, GatesAssumption DEF SuiteInv, TokenAwaited
<1>. QED  BY <1>3, <1>4, <1>5, <1>6 DEF SuiteInv

\* What a pipeline does to its own slot, when it has an answer or an error.
LEMMA PhaseKept ==
  ASSUME SuiteInv, NEW r \in Requests,
         at[r] \in {"preparing", "dispatched", "released", "rejected", "answered"},
         \/ /\ \E s \in Suite!Statuses \cup {None} : Suite!ResponsePhase(r, s)
            /\ r \in aborted /\ at[r] \in {"preparing", "dispatched"} => lateHit'
         \/ Suite!ErrorPhase(r),
         lateHit' \in BOOLEAN, lateHit => lateHit',
         UNCHANGED <<attempt, aborted, keyed, authRetried, Suite!auth>>
  PROVE  SuiteInv'
<1>. USE DEF Suite!auth
<1>1. PICK w \in {"released", "rejected"}, e \in {"done", "answered", "backoff", "failed"},
           W \in SUBSET Requests :
        /\ at' = [Suite!Told(W, w) EXCEPT ![r] = e]
        /\ \A q \in W : slot # None /\ q \in slot
        /\ \/ slot' = slot /\ W = {}
           \/ slot' = None /\ slot # None /\ slot \subseteq W \cup {r}
           \/ slot' = None /\ slot = None /\ W = {}
  <2>1. CASE \E s \in Suite!Statuses \cup {None} : Suite!ResponsePhase(r, s)
    <3>1. CASE r \in aborted
      <4>1. at' = [Suite!Told({}, "released") EXCEPT ![r] = "done"] /\ slot' = slot
        BY <2>1, <3>1 DEF Suite!ResponsePhase, Suite!Told, SuiteInv, Suite!TypeOK
      <4>. QED  BY <4>1
    <3>2. CASE r \notin aborted
      <4>1. /\ at' = [Suite!Told(Suite!Waiters(r), "released") EXCEPT ![r] = "answered"]
            /\ slot' = Suite!ReleasedSlot(r)
        BY <2>1, <3>2 DEF Suite!ResponsePhase
      <4>2. Suite!Waiters(r) \in SUBSET Requests
        BY DEF Suite!Waiters, SuiteInv, Suite!TypeOK
      <4>. QED  BY <4>1, <4>2 DEF Suite!Waiters, Suite!ReleasedSlot
    <3>. QED  BY <3>1, <3>2
  <2>2. CASE Suite!ErrorPhase(r)
    <3>1. /\ at' = [Suite!Told(Suite!Waiters(r) \ {r}, "rejected")
                      EXCEPT ![r] = IF Suite!MayRetry(r) THEN "backoff" ELSE "failed"]
          /\ slot' = Suite!ReleasedSlot(r)
      BY <2>2 DEF Suite!ErrorPhase
    <3>2. Suite!Waiters(r) \ {r} \in SUBSET Requests
      BY DEF Suite!Waiters, SuiteInv, Suite!TypeOK
    <3>. QED  BY <3>1, <3>2 DEF Suite!Waiters, Suite!ReleasedSlot
  <2>. QED  BY <2>1, <2>2
<1>2. /\ at' \in [Requests -> Suite!Places] /\ at'[r] = e
      /\ \A q \in Requests \ {r} : at'[q] = IF q \in W THEN w ELSE at[q]
  BY <1>1 DEF Suite!Told, SuiteInv, Suite!TypeOK, Suite!Places
<1>3. timer' \subseteq Requests /\ status' \in [Requests -> Suite!Statuses \cup {None}]
  BY DEF Suite!ResponsePhase, Suite!ErrorPhase, SuiteInv, Suite!TypeOK
<1>4. Suite!TypeOK'
  <2>1. slot' \in (SUBSET Requests) \cup {None}
    BY <1>1 DEF SuiteInv, Suite!TypeOK
  <2>. QED  BY <1>2, <1>3, <2>1 DEF SuiteInv, Suite!TypeOK
<1>5. Suite!OnlyWaitersTold'
  BY <1>1, <1>2 DEF SuiteInv, Suite!OnlyWaitersTold, Suite!TypeOK
<1>6. \A q \in W : at[q] = "queued"
  BY <1>1 DEF SuiteInv, Suite!OnlyWaitersTold
<1>7. Suite!NobodyStranded'
  <2>1. slot' # None => lateHit' \/ \E q \in keyed' : at'[q] \in {"preparing", "dispatched"}
    <3>. SUFFICES ASSUME slot' # None, ~lateHit' PROVE \E q \in keyed' : at'[q] \in {"preparing", "dispatched"}
      OBVIOUS
    <3>1. slot' = slot /\ W = {}
      BY <1>1
    <3>2. PICK q \in keyed : at[q] \in {"preparing", "dispatched"}
      BY <3>1 DEF SuiteInv, Suite!NobodyStranded
    <3>3. CASE q = r
      <4>1. r \notin aborted \/ Suite!ErrorPhase(r)
        BY <3>2, <3>3
      <4>2. slot' = None
        BY <3>2, <3>3, <4>1 DEF Suite!ResponsePhase, Suite!ErrorPhase, Suite!ReleasedSlot
      <4>. QED  BY <4>2
    <3>4. CASE q # r
      BY <3>1, <3>2, <3>4, <1>2 DEF SuiteInv, Suite!TypeOK
    <3>. QED  BY <3>3, <3>4
  <2>2. ASSUME NEW q \in Requests, at'[q] = "queued" PROVE slot' # None /\ q \in slot'
    <3>1. q # r /\ q \notin W /\ at[q] = "queued"
      BY <1>2, <2>2
    <3>. QED  BY <1>1, <3>1 DEF SuiteInv, Suite!NobodyStranded
  <2>3. ASSUME NEW q \in Requests, at'[q] = "refreshing"
        PROVE  refresher' # None /\ q \in Suite!WaitingForToken'
    BY <1>2, <2>3 DEF SuiteInv, Suite!NobodyStranded, Suite!WaitingForToken
  <2>. QED  BY <2>1, <2>2, <2>3 DEF Suite!NobodyStranded
<1>8. TokenAwaited'
  BY <1>1, <1>2, <1>6 DEF SuiteInv, TokenAwaited
<1>. QED  BY <1>4, <1>5, <1>7, <1>8 DEF SuiteInv

LEMMA SuiteNext == ASSUME SuiteInv, Suite!Next PROVE SuiteInv'
<1>. USE DEF Suite!auth, Suite!context
<1>0. Suite!TypeOK
  BY DEF SuiteInv
<1>1. ASSUME NEW r \in Requests, Suite!Execute(r) \/ Suite!Again(r) PROVE SuiteInv'
  <2>1. Suite!Run({r}) /\ at[r] \in {"idle", "backoff"}
    BY <1>1 DEF Suite!Execute, Suite!Again
  <2>2. /\ UNCHANGED <<aborted, slot, lateHit, keyed>> /\ UNCHANGED <<refresher, authQueue>>
        /\ cooling' \in BOOLEAN /\ authRetried' \subseteq Requests
    BY <1>0, <1>1 DEF Suite!Execute, Suite!Again, Suite!TypeOK
  <2>3. \A q \in {r} : at[q] \in {"idle", "backoff", "refreshing"} /\ at[q] # "refreshing"
    BY <2>1
  <2>. QED  BY <2>1, <2>2, <2>3, RunKept
<1>2. ASSUME NEW r \in Requests, Suite!Key(r) PROVE SuiteInv'
  <2>1. /\ at[r] = "keying" /\ r \in keyed' /\ keyed' = keyed \cup {r}
        /\ UNCHANGED <<attempt, aborted, timer, authRetried, status, refresher, authQueue, cooling,
                       lateHit>>
    BY <1>2 DEF Suite!Key
  <2>2. CASE slot = None /\ slot' = {} /\ at'[r] \in {"dispatched", "preparing"}
             /\ at' = [at EXCEPT ![r] = at'[r]]
    <3>1. Suite!TypeOK'
      BY <1>0, <2>1, <2>2 DEF Suite!TypeOK, Suite!Places
    <3>. QED  BY <3>1, <1>0, <2>1, <2>2 DEF SuiteInv, Suite!OnlyWaitersTold, Suite!NobodyStranded,
                TokenAwaited, Suite!TypeOK, Suite!WaitingForToken
  <2>3. CASE slot # None /\ slot' = slot \cup {r} /\ at' = [at EXCEPT ![r] = "queued"]
    <3>1. Suite!TypeOK' /\ slot' # None
      BY <1>0, <2>1, <2>3, GatesAssumption DEF Suite!TypeOK, Suite!Places
    <3>. QED  BY <3>1, <1>0, <2>1, <2>3 DEF SuiteInv, Suite!OnlyWaitersTold, Suite!NobodyStranded,
                TokenAwaited, Suite!TypeOK, Suite!WaitingForToken
  <2>4. CASE slot # None /\ slot' = slot /\ at' = [at EXCEPT ![r] = "rejected"]
    <3>1. Suite!TypeOK'
      BY <1>0, <2>1, <2>4 DEF Suite!TypeOK, Suite!Places
    <3>. QED  BY <3>1, <1>0, <2>1, <2>4 DEF SuiteInv, Suite!OnlyWaitersTold, Suite!NobodyStranded,
                TokenAwaited, Suite!TypeOK, Suite!WaitingForToken
  <2>. QED  BY <1>0, <1>2, <2>2, <2>3, <2>4 DEF Suite!Key, Suite!TypeOK
<1>3. ASSUME NEW r \in Requests, Suite!Prepare(r) PROVE SuiteInv'
  <2>1. CASE Suite!ResponsePhase(r, "ok") /\ lateHit' = (lateHit \/ r \in aborted)
    BY <1>0, <1>3, <2>1, PhaseKept DEF Suite!Prepare, Suite!TypeOK, Suite!Statuses
  <2>2. CASE Suite!ErrorPhase(r) /\ UNCHANGED lateHit
    BY <1>0, <1>3, <2>2, PhaseKept DEF Suite!Prepare, Suite!TypeOK
  <2>3. CASE at' = [at EXCEPT ![r] = "dispatched"] /\ UNCHANGED <<timer, slot, status, lateHit>>
    <3>1. at[r] = "preparing" /\ UNCHANGED <<attempt, aborted, keyed, authRetried, refresher,
                                             authQueue, cooling>>
      BY <1>3 DEF Suite!Prepare
    <3>2. Suite!TypeOK'
      BY <1>0, <2>3, <3>1 DEF Suite!TypeOK, Suite!Places
    <3>. QED  BY <1>0, <3>1, <3>2, <2>3 DEF SuiteInv, Suite!OnlyWaitersTold, Suite!NobodyStranded,
                TokenAwaited, Suite!TypeOK, Suite!WaitingForToken
  <2>. QED  BY <1>3, <2>1, <2>2, <2>3 DEF Suite!Prepare
<1>4. ASSUME NEW r \in Requests, Suite!Dispatch(r) PROVE SuiteInv'
  BY <1>0, <1>4, PhaseKept DEF Suite!Dispatch, Suite!TypeOK
<1>5. ASSUME NEW r \in Requests, Suite!Released(r) PROVE SuiteInv'
  BY <1>0, <1>5, PhaseKept DEF Suite!Released, Suite!TypeOK
<1>6. ASSUME NEW r \in Requests, Suite!Rejected(r) \/ Suite!RefreshRefused(r) PROVE SuiteInv'
  BY <1>0, <1>6, PhaseKept DEF Suite!Rejected, Suite!RefreshRefused, Suite!TypeOK
<1>7. ASSUME NEW r \in Requests, Suite!TimesOut(r) PROVE SuiteInv'
  <2>1. /\ timer' \subseteq Requests /\ aborted' \subseteq Requests
        /\ UNCHANGED <<attempt, keyed, authRetried, status, refresher, authQueue, cooling, lateHit>>
    BY <1>0, <1>7 DEF Suite!TimesOut, Suite!TypeOK
  <2>2. CASE at[r] = "queued"
    <3>1. slot # None /\ slot' = slot \ {r} /\ at' = [at EXCEPT ![r] = "rejected"]
      BY <1>7, <2>2 DEF Suite!TimesOut, Suite!LeaveSlot, SuiteInv, Suite!NobodyStranded
    <3>2. Suite!TypeOK'
      BY <1>0, <2>1, <3>1 DEF Suite!TypeOK, Suite!Places
    <3>3. slot' # None
      BY <3>1, <3>2, <1>0, GatesAssumption DEF Suite!TypeOK
    <3>. QED  BY <1>0, <3>1, <3>2, <3>3, <2>1, <2>2 DEF SuiteInv, Suite!OnlyWaitersTold, Suite!NobodyStranded,
                TokenAwaited, Suite!TypeOK, Suite!WaitingForToken
  <2>3. CASE at[r] # "queued"
    <3>1. UNCHANGED <<slot, at>>
      BY <1>7, <2>3 DEF Suite!TimesOut, Suite!LeaveSlot
    <3>2. Suite!TypeOK'
      BY <1>0, <2>1, <3>1 DEF Suite!TypeOK
    <3>. QED  BY <1>0, <3>1, <3>2, <2>1 DEF SuiteInv, Suite!OnlyWaitersTold, Suite!NobodyStranded,
                TokenAwaited, Suite!TypeOK, Suite!WaitingForToken
  <2>. QED  BY <2>2, <2>3
<1>8. ASSUME NEW r \in Requests, Suite!Answer(r) PROVE SuiteInv'
  <2>1. PICK e \in {"backoff", "done"} :
          /\ at[r] = "answered" /\ at' = [at EXCEPT ![r] = e]
          /\ UNCHANGED <<attempt, aborted, timer, keyed, authRetried, status, slot, refresher,
                         authQueue, cooling, lateHit>>
    BY <1>8 DEF Suite!Answer
  <2>2. Suite!TypeOK'
    BY <1>0, <2>1 DEF Suite!TypeOK, Suite!Places
  <2>. QED  BY <1>0, <2>1, <2>2 DEF SuiteInv, Suite!OnlyWaitersTold, Suite!NobodyStranded,
              TokenAwaited, Suite!TypeOK, Suite!WaitingForToken
<1>9. ASSUME NEW r \in Requests, Suite!RefreshWaits(r) PROVE SuiteInv'
  <2>1. /\ at[r] = "answered" /\ at' = [at EXCEPT ![r] = "refreshing"]
        /\ UNCHANGED <<attempt, aborted, timer, keyed, authRetried, status, slot, cooling, lateHit>>
        /\ \/ refresher = None /\ refresher' = r /\ authQueue' = authQueue
           \/ /\ refresher # None /\ refresher' = refresher
              /\ Suite!Cardinality(authQueue) < AuthQueue /\ authQueue' = authQueue \cup {r}
    BY <1>9 DEF Suite!RefreshWaits
  <2>2. Suite!Cardinality(authQueue') <= AuthQueue
    <3>1. CASE authQueue' = authQueue
      BY <1>0, <3>1, SameCount DEF Suite!TypeOK
    <3>2. CASE Suite!Cardinality(authQueue) < AuthQueue /\ authQueue' = authQueue \cup {r}
      <4>1. IsFiniteSet(authQueue)
        BY <1>0, GatesAssumption, FS_Subset DEF Suite!TypeOK
      <4>2. Cardinality(authQueue) \in Nat
        BY <4>1, FS_CardinalityType
      <4>3. Cardinality(authQueue') \in {Cardinality(authQueue), Cardinality(authQueue) + 1}
        BY <3>2, <4>1, FS_AddElement
      <4>. QED  BY <3>2, <4>2, <4>3, SameCount, GatesAssumption
    <3>. QED  BY <2>1, <3>1, <3>2
  <2>3. at' \in [Requests -> Suite!Places] /\ authQueue' \subseteq Requests
        /\ refresher' \in Requests \cup {None}
    BY <1>0, <2>1 DEF Suite!TypeOK, Suite!Places
  <2>4. Suite!TypeOK'
    BY <1>0, <2>1, <2>2, <2>3 DEF Suite!TypeOK
  <2>5. Suite!OnlyWaitersTold' /\ TokenAwaited'
    BY <1>0, <2>1, GatesAssumption DEF SuiteInv, Suite!OnlyWaitersTold, TokenAwaited, Suite!TypeOK
  <2>6. Suite!NobodyStranded'
    BY <1>0, <2>1, GatesAssumption DEF SuiteInv, Suite!NobodyStranded, Suite!TypeOK, Suite!WaitingForToken
  <2>. QED  BY <2>4, <2>5, <2>6 DEF SuiteInv
<1>10. ASSUME Suite!Refreshed PROVE SuiteInv'
  <2>1. Suite!WaitingForToken = {r \in Requests : at[r] = "refreshing"}
    BY <1>0, <1>10 DEF Suite!Refreshed, SuiteInv, Suite!NobodyStranded, TokenAwaited,
       Suite!WaitingForToken, Suite!TypeOK
  <2>2. authRetried' \subseteq Requests /\ cooling' \in BOOLEAN
    BY <1>0, <1>10, <2>1 DEF Suite!Refreshed, Suite!TypeOK
  <2>. QED  BY <1>10, <2>1, <2>2, RunKept DEF Suite!Refreshed
<1>11. ASSUME Suite!NoToken \/ Suite!RefreshFails PROVE SuiteInv'
  <2>1. PICK w \in {"done", "rejected"} :
          /\ refresher # None /\ at' = Suite!Told(Suite!WaitingForToken, w)
          /\ refresher' = None /\ authQueue' = {} /\ cooling' \in BOOLEAN
          /\ UNCHANGED <<attempt, aborted, timer, keyed, authRetried, status, slot, lateHit>>
    BY <1>11 DEF Suite!NoToken, Suite!RefreshFails
  <2>2. \A r \in Requests : at'[r] = IF at[r] = "refreshing" THEN w ELSE at[r]
    BY <1>0, <2>1 DEF SuiteInv, Suite!NobodyStranded, TokenAwaited, Suite!WaitingForToken,
       Suite!TypeOK, Suite!Told
  <2>3. at' \in [Requests -> Suite!Places] /\ Suite!Cardinality(authQueue') <= AuthQueue
    BY <1>0, <2>1, FS_EmptySet, SameCount, GatesAssumption DEF Suite!Told, Suite!TypeOK, Suite!Places
  <2>4. Suite!TypeOK'
    BY <1>0, <2>1, <2>3 DEF Suite!TypeOK
  <2>5. Suite!OnlyWaitersTold' /\ TokenAwaited'
    BY <2>1, <2>2, <1>0, GatesAssumption DEF SuiteInv, Suite!OnlyWaitersTold, TokenAwaited, Suite!TypeOK
  <2>6. Suite!NobodyStranded'
    BY <2>1, <2>2, <1>0 DEF SuiteInv, Suite!NobodyStranded, Suite!TypeOK
  <2>. QED  BY <2>4, <2>5, <2>6 DEF SuiteInv
<1>12. ASSUME Suite!Cools PROVE SuiteInv'
  <2>1. Suite!TypeOK' /\ UNCHANGED <<at, keyed, slot, lateHit, refresher, authQueue>>
    BY <1>0, <1>12 DEF Suite!Cools, Suite!TypeOK
  <2>. QED  BY <2>1 DEF SuiteInv, Suite!OnlyWaitersTold, Suite!NobodyStranded, TokenAwaited,
              Suite!WaitingForToken
<1>. QED
  BY <1>1, <1>2, <1>3, <1>4, <1>5, <1>6, <1>7, <1>8, <1>9, <1>10, <1>11, <1>12 DEF Suite!Next

LEMMA SuiteKept == Spec => []SuiteInv
<1>1. ASSUME SuiteInv, UNCHANGED suiteVars PROVE SuiteInv'
  BY <1>1 DEF suiteVars, SuiteInv, Suite!TypeOK, Suite!OnlyWaitersTold, Suite!NobodyStranded,
     TokenAwaited, Suite!WaitingForToken
<1>2. SuiteInv /\ [Next]_gatesVars => SuiteInv'
  BY <1>1, PartsMove, SuiteNext DEF OnlyOf
<1>. QED  BY SuiteInit, <1>2, PTL DEF Spec

\* For any number of requests, what the answer, the failure or the timeout of one read does to
\* others it does to those that wait for it (interceptors.ts, the deduplication).
THEOREM OnlyWaitersToldCorrect == Spec => []OnlyWaitersTold
<1>1. SuiteInv => OnlyWaitersTold
  BY DEF SuiteInv, OnlyWaitersTold
<1>. QED  BY <1>1, SuiteKept, PTL

----------------------------------------------------------------------------
(* The rate limiter.                                                       *)

\* What has been granted since a time, and what the bucket still holds, was in a full bucket
\* or has been refilled since then; nothing has been granted since the last refill.
WithinBucket ==
  \A from \in 0..clock :
    IF from <= lastRefill
      THEN (grants[clock] - Rate!Before(from)) * WindowMs + tokens
             <= Limit * WindowMs + (lastRefill - from) * Limit
      ELSE grants[clock] = Rate!Before(from)

NoneLater == \A t \in Rate!Times : t > clock => grants[t] = grants[clock]

RateInv == Rate!TypeOK /\ Rate!RateHeld /\ Rate!QueueHasTimer /\ WithinBucket /\ NoneLater

LEMMA LeastOfTwo ==
  ASSUME NEW a \in Int, NEW b \in Int
  PROVE  Rate!Min({a, b}) \in {a, b} /\ Rate!Min({a, b}) <= a /\ Rate!Min({a, b}) <= b
<1>1. \E x \in {a, b} : \A y \in {a, b} : x <= y
  <2>1. CASE a <= b
    BY <2>1
  <2>2. CASE b <= a
    BY <2>2
  <2>. QED  BY <2>1, <2>2
<1>. QED  BY <1>1 DEF Rate!Min

LEMMA ProductNat == ASSUME NEW m \in Nat, NEW n \in Nat PROVE m * n \in Nat
  OBVIOUS

LEMMA Distributes ==
  ASSUME NEW a \in Int, NEW b \in Int, NEW w \in Int
  PROVE  (a + b) * w = a * w + b * w /\ a * w \in Int /\ b * w \in Int
  OBVIOUS

LEMMA Quotient ==
  ASSUME NEW a \in Nat, NEW w \in Nat \ {0}
  PROVE  a \div w \in Nat /\ (a \div w) * w <= a
  OBVIOUS

LEMMA Grows ==
  ASSUME NEW a \in Nat, NEW b \in Nat, a <= b, NEW w \in Nat
  PROVE  a * w <= b * w
  OBVIOUS

LEMMA RateInit == Init => RateInv
<1>. SUFFICES ASSUME Rate!Init PROVE RateInv
  BY DEF Init
<1>. USE GatesAssumption DEF Rate!Init, Rate!Times
<1>1. Limit * WindowMs \in Nat
  BY ProductNat
<1>2. Rate!TypeOK
  BY <1>1 DEF Rate!TypeOK
<1>3. Rate!QueueHasTimer /\ NoneLater
  BY DEF Rate!QueueHasTimer, NoneLater
<1>4. grants[0] = 0
  OBVIOUS
<1>5. WithinBucket
  BY <1>1, <1>4 DEF WithinBucket, Rate!Before
<1>6. Rate!RateHeld
  BY <1>1, <1>4 DEF Rate!RateHeld, Rate!Before
<1>. QED  BY <1>2, <1>3, <1>5, <1>6 DEF RateInv

\* The bucket as it is once it has been refilled.
LEMMA RefilledType ==
  ASSUME RateInv
  PROVE  /\ Rate!Refilled \in 0..(Limit * WindowMs) /\ Limit * WindowMs \in Nat
         /\ (clock - lastRefill) * Limit \in Nat
         /\ Rate!Refilled <= tokens + (clock - lastRefill) * Limit
<1>1. Limit * WindowMs \in Nat
  BY GatesAssumption, ProductNat
<1>2. clock - lastRefill \in Nat
  BY GatesAssumption DEF RateInv, Rate!TypeOK, Rate!Times
<1>3. (clock - lastRefill) * Limit \in Nat
  BY <1>2, GatesAssumption, ProductNat
<1>4. tokens \in Nat /\ tokens <= Limit * WindowMs
  BY <1>1 DEF RateInv, Rate!TypeOK
<1>. DEFINE a == Limit * WindowMs
            b == (clock - lastRefill) * Limit
<1>5. a \in Nat /\ b \in Nat /\ tokens \in Nat /\ Rate!Refilled = Rate!Min({a, tokens + b})
  BY <1>1, <1>3, <1>4 DEF Rate!Refilled
<1>. HIDE DEF a, b
<1>6. Rate!Refilled \in 0..a /\ Rate!Refilled <= tokens + b
  <2>1. a \in Int /\ tokens + b \in Int /\ tokens + b \in Nat
    BY <1>5
  <2>2. /\ Rate!Min({a, tokens + b}) \in {a, tokens + b}
        /\ Rate!Min({a, tokens + b}) <= a /\ Rate!Min({a, tokens + b}) <= tokens + b
    BY <2>1, LeastOfTwo
  <2>. QED  BY <1>5, <2>1, <2>2
<1>. QED  BY <1>1, <1>3, <1>6 DEF a, b

\* n callers are let through after a refill.
LEMMA GrantKept ==
  ASSUME RateInv, NEW n \in Nat, n * WindowMs <= Rate!Refilled, UNCHANGED clock, lastRefill' = clock,
         tokens' = Rate!Refilled - n * WindowMs, Rate!Grant(n)
  PROVE  /\ tokens' \in 0..(Limit * WindowMs) /\ grants' \in [Rate!Times -> Nat]
         /\ WithinBucket' /\ NoneLater' /\ Rate!RateHeld'
<1>. DEFINE full == Limit * WindowMs
            spent == n * WindowMs
<1>1. /\ clock \in Rate!Times /\ lastRefill \in 0..clock /\ MaxTime \in Nat /\ clock \in Nat
      /\ grants \in [Rate!Times -> Nat] /\ tokens \in Int /\ Limit \in Nat /\ WindowMs \in Nat
      /\ Rate!Times = 0..MaxTime /\ lastRefill \in Nat
  BY GatesAssumption, SMTT(20) DEF RateInv, Rate!TypeOK, Rate!Times
<1>2. full \in Nat /\ spent \in Nat
  BY <1>1, ProductNat
<1>3. tokens' \in 0..full
  BY <1>2, RefilledType
<1>4. /\ grants' \in [Rate!Times -> Nat]
      /\ \A t \in Rate!Times : grants'[t] = IF t < clock THEN grants[t] ELSE grants[t] + n
  BY <1>1 DEF Rate!Grant
<1>5. NoneLater'
  BY <1>1, <1>4 DEF NoneLater, RateInv
<1>6. ASSUME NEW from \in 0..clock
      PROVE  /\ Rate!Before(from)' = Rate!Before(from) /\ Rate!Before(from) \in Nat
  BY <1>1, <1>4 DEF Rate!Before
<1>7. ASSUME NEW from \in 0..clock
      PROVE  (grants'[clock] - Rate!Before(from)) * WindowMs + tokens' <= full + (clock - from) * Limit
  <2>. DEFINE had == grants[clock] - Rate!Before(from)
  <2>1. grants'[clock] - Rate!Before(from) = had + n /\ had \in Int
    BY <1>1, <1>4, <1>6, SMTT(20)
  <2>2. (had + n) * WindowMs = had * WindowMs + spent /\ had * WindowMs \in Int
    BY <1>1, <2>1, Distributes
  <2>3. Rate!Refilled \in 0..full /\ tokens' = Rate!Refilled - spent
    BY RefilledType
  <2>4. had * WindowMs + Rate!Refilled <= full + (clock - from) * Limit
    <3>1. CASE from <= lastRefill
      <4>1. had * WindowMs + tokens <= full + (lastRefill - from) * Limit
        BY <3>1 DEF RateInv, WithinBucket
      <4>2. Rate!Refilled <= tokens + (clock - lastRefill) * Limit
        BY RefilledType
      <4>3. ((clock - lastRefill) + (lastRefill - from)) * Limit
              = (clock - lastRefill) * Limit + (lastRefill - from) * Limit
            /\ (clock - lastRefill) * Limit \in Int /\ (lastRefill - from) * Limit \in Int
        BY <1>1, Distributes
      <4>4. (clock - lastRefill) + (lastRefill - from) = clock - from
        BY <1>1
      <4>. QED  BY <1>1, <1>2, <2>2, <2>3, <4>1, <4>2, <4>3, <4>4, SMTT(20)
    <3>2. CASE from > lastRefill
      <4>1. had = 0
        BY <1>1, <1>6, <3>2 DEF RateInv, WithinBucket
      <4>2. (clock - from) * Limit \in Nat
        BY <1>1, ProductNat
      <4>3. had * WindowMs = 0
        BY <4>1, <1>1
      <4>. QED  BY <1>2, <2>3, <4>2, <4>3
    <3>. QED  BY <1>1, <3>1, <3>2
  <2>5. (clock - from) * Limit \in Int
    BY <1>1
  <2>. QED  BY <1>2, <2>1, <2>2, <2>3, <2>4, <2>5
<1>8. WithinBucket'
  BY <1>1, <1>6, <1>7 DEF WithinBucket
<1>9. Rate!RateHeld'
  <2>. SUFFICES ASSUME NEW from \in 0..clock, NEW to \in 0..clock, from <= to
                PROVE  (grants'[to] - Rate!Before(from)') * WindowMs <= full + (to - from) * Limit
    BY DEF Rate!RateHeld
  <2>1. CASE to = clock
    <3>1. (grants'[clock] - Rate!Before(from)) * WindowMs + tokens' <= full + (clock - from) * Limit
      BY <1>7
    <3>2. grants'[clock] - Rate!Before(from) \in Int /\ clock - from \in Int
      BY <1>1, <1>4, <1>6, SMTT(20)
    <3>3. /\ (grants'[clock] - Rate!Before(from)) * WindowMs \in Int
          /\ (clock - from) * Limit \in Int
      BY <1>1, <3>2
    <3>4. tokens' \in Nat
      BY <1>2, <1>3
    <3>. QED  BY <2>1, <3>1, <3>3, <3>4, <1>2, <1>6
  <2>2. CASE to < clock
    BY <1>1, <1>4, <1>6, <2>2 DEF RateInv, Rate!RateHeld
  <2>. QED  BY <1>1, <2>1, <2>2
<1>. QED  BY <1>3, <1>4, <1>5, <1>8, <1>9

\* The caller or the timer refills the bucket and lets nobody through.
LEMMA RefillKept ==
  ASSUME RateInv, UNCHANGED <<clock, grants>>, lastRefill' = clock, tokens' = Rate!Refilled
  PROVE  /\ tokens' \in 0..(Limit * WindowMs) /\ grants' \in [Rate!Times -> Nat]
         /\ WithinBucket' /\ NoneLater' /\ Rate!RateHeld'
<1>1. clock \in Rate!Times /\ grants \in [Rate!Times -> Nat] /\ Rate!Refilled \in 0..(Limit * WindowMs)
  BY RefilledType DEF RateInv, Rate!TypeOK
<1>2. Rate!Grant(0)
  BY <1>1 DEF Rate!Grant
<1>3. 0 * WindowMs = 0 /\ Rate!Refilled \in Nat /\ Rate!Refilled - 0 = Rate!Refilled
  BY GatesAssumption, RefilledType
<1>. QED  BY <1>2, <1>3, GrantKept

LEMMA IntervalType == Rate!Interval \in Nat
  BY GatesAssumption DEF Rate!Interval

LEMMA AcquireKept == ASSUME RateInv, NEW c \in Callers, Rate!Acquire(c) PROVE RateInv'
<1>0. /\ Rate!TypeOK /\ Rate!QueueHasTimer /\ UNCHANGED clock /\ lastRefill' = clock /\ clock \in Nat
      /\ Rate!Refilled \in Nat /\ None \notin Nat /\ WindowMs \in Nat \ {0}
  BY GatesAssumption, RefilledType DEF Rate!Acquire, RateInv, Rate!TypeOK, Rate!Times
<1>1. CASE /\ Rate!Refilled >= WindowMs /\ tokens' = Rate!Refilled - WindowMs /\ Rate!Grant(1)
           /\ caller' = [caller EXCEPT ![c] = "through"] /\ UNCHANGED <<pending, refillTimer>>
  <2>1. 1 * WindowMs = WindowMs
    BY <1>0
  <2>2. /\ tokens' \in 0..(Limit * WindowMs) /\ grants' \in [Rate!Times -> Nat]
        /\ WithinBucket' /\ NoneLater' /\ Rate!RateHeld'
    BY <1>0, <1>1, <2>1, GrantKept
  <2>3. Rate!TypeOK'
    BY <1>0, <1>1, <2>2 DEF Rate!TypeOK, Rate!Times
  <2>4. Rate!QueueHasTimer'
    BY <1>0, <1>1 DEF Rate!QueueHasTimer, Rate!TypeOK
  <2>. QED  BY <2>2, <2>3, <2>4 DEF RateInv
<1>2. CASE tokens' = Rate!Refilled /\ UNCHANGED grants
  <2>1. /\ tokens' \in 0..(Limit * WindowMs) /\ grants' \in [Rate!Times -> Nat]
        /\ WithinBucket' /\ NoneLater' /\ Rate!RateHeld'
    BY <1>0, <1>2, RefillKept
  <2>2. CASE /\ Len(pending) < RateQueue /\ pending' = Append(pending, c)
             /\ caller' = [caller EXCEPT ![c] = "queued"]
             /\ refillTimer' = IF refillTimer = None THEN clock + Rate!Interval ELSE refillTimer
    <3>1. Len(pending) \in Nat /\ RateQueue \in Int /\ Len(pending') = Len(pending) + 1
          /\ pending' \in Seq(Callers) /\ RateQueue >= 0
      BY <1>0, <2>2, GatesAssumption DEF Rate!TypeOK
    <3>2. refillTimer' \in Nat
      BY <1>0, <2>2, IntervalType DEF Rate!TypeOK
    <3>3. Rate!TypeOK'
      <4>1. Len(pending') <= IF RateQueue < 0 THEN 0 ELSE RateQueue
        BY <2>2, <3>1
      <4>. QED  BY <1>0, <2>1, <2>2, <3>1, <3>2, <4>1 DEF Rate!TypeOK, Rate!Times
    <3>4. ASSUME NEW d \in Callers, caller'[d] = "queued" PROVE d \in Rate!Range(pending')
      <4>1. CASE d = c
        <5>1. pending'[Len(pending) + 1] = c /\ Len(pending) + 1 \in DOMAIN pending'
          BY <1>0, <2>2, <3>1 DEF Rate!TypeOK
        <5>. QED  BY <4>1, <5>1 DEF Rate!Range
      <4>2. CASE d # c
        <5>1. d \in Rate!Range(pending)
          BY <1>0, <2>2, <3>4, <4>2 DEF Rate!QueueHasTimer, Rate!TypeOK
        <5>2. PICK i \in DOMAIN pending : d = pending[i]
          BY <5>1 DEF Rate!Range
        <5>3. i \in DOMAIN pending' /\ pending'[i] = d
          BY <1>0, <2>2, <3>1, <5>2 DEF Rate!TypeOK
        <5>. QED  BY <5>3 DEF Rate!Range
      <4>. QED  BY <4>1, <4>2
    <3>5. Rate!QueueHasTimer'
      BY <1>0, <3>2, <3>4 DEF Rate!QueueHasTimer
    <3>. QED  BY <2>1, <3>3, <3>5 DEF RateInv
  <2>3. CASE caller' = [caller EXCEPT ![c] = "refused"] /\ UNCHANGED <<pending, refillTimer>>
    <3>1. Rate!TypeOK'
      BY <1>0, <2>1, <2>3 DEF Rate!TypeOK, Rate!Times
    <3>2. Rate!QueueHasTimer'
      BY <1>0, <2>3 DEF Rate!QueueHasTimer, Rate!TypeOK
    <3>. QED  BY <2>1, <3>1, <3>2 DEF RateInv
  <2>. QED  BY <1>1, <1>2, <2>2, <2>3 DEF Rate!Acquire
<1>. QED  BY <1>1, <1>2 DEF Rate!Acquire

\* What the timer leaves of the queue.
LEMMA QueueServed ==
  ASSUME NEW s \in Seq(Callers), NEW n \in Nat, n <= Len(s)
  PROVE  /\ SubSeq(s, n + 1, Len(s)) \in Seq(Callers)
         /\ Len(SubSeq(s, n + 1, Len(s))) = Len(s) - n
         /\ \A i \in 1..Len(s) : i > n => s[i] \in Rate!Range(SubSeq(s, n + 1, Len(s)))
<1>. DEFINE q == SubSeq(s, n + 1, Len(s))
<1>1. q \in Seq(Callers) /\ Len(q) = Len(s) - n
  OBVIOUS
<1>2. ASSUME NEW i \in 1..Len(s), i > n PROVE s[i] \in Rate!Range(q)
  <2>1. i - n \in DOMAIN q /\ q[i - n] = s[i]
    BY <1>1, <1>2
  <2>. QED  BY <2>1 DEF Rate!Range
<1>. QED  BY <1>1, <1>2

LEMMA TimerKept == ASSUME RateInv, Rate!RefillTimer PROVE RateInv'
<1>. DEFINE full == Rate!Refilled \div WindowMs
            n    == Rate!Min({Len(pending), full})
<1>0. /\ Rate!TypeOK /\ Rate!QueueHasTimer /\ UNCHANGED clock /\ lastRefill' = clock /\ clock \in Nat
      /\ Rate!Refilled \in Nat /\ None \notin Nat /\ WindowMs \in Nat \ {0} /\ Len(pending) \in Nat
      /\ pending \in Seq(Callers)
  BY GatesAssumption, RefilledType, SMTT(20) DEF Rate!RefillTimer, RateInv, Rate!TypeOK, Rate!Times
<1>1. /\ tokens' = Rate!Refilled - n * WindowMs
      /\ pending' = SubSeq(pending, n + 1, Len(pending))
      /\ caller' = [c \in Callers |-> IF \E i \in 1..n : pending[i] = c THEN "through" ELSE caller[c]]
      /\ Rate!Grant(n)
      /\ refillTimer' = IF n = Len(pending) THEN None ELSE clock + Rate!Interval
  BY DEF Rate!RefillTimer
<1>2. full \in Nat /\ full * WindowMs <= Rate!Refilled
  BY <1>0, Quotient
<1>. HIDE DEF full
<1>3. n \in Nat /\ n <= Len(pending) /\ n <= full
  <2>1. Len(pending) \in Int /\ full \in Int
    BY <1>0, <1>2
  <2>2. n \in {Len(pending), full} /\ n <= Len(pending) /\ n <= full
    BY <2>1, LeastOfTwo
  <2>. QED  BY <1>0, <1>2, <2>2
<1>. HIDE DEF n
<1>4. n * WindowMs <= Rate!Refilled
  <2>1. n * WindowMs <= full * WindowMs /\ n * WindowMs \in Nat /\ full * WindowMs \in Nat
    BY <1>0, <1>2, <1>3, Grows, ProductNat
  <2>. QED  BY <2>1, <1>0, <1>2
<1>5. /\ tokens' \in 0..(Limit * WindowMs) /\ grants' \in [Rate!Times -> Nat]
      /\ WithinBucket' /\ NoneLater' /\ Rate!RateHeld'
  BY <1>0, <1>1, <1>3, <1>4, GrantKept
<1>6. /\ pending' \in Seq(Callers) /\ Len(pending') = Len(pending) - n
      /\ \A i \in 1..Len(pending) : i > n => pending[i] \in Rate!Range(pending')
  BY <1>0, <1>1, <1>3, QueueServed
<1>7. refillTimer' \in Nat \cup {None}
  BY <1>0, <1>1, IntervalType
<1>8. Rate!TypeOK'
  <2>1. Len(pending') <= IF RateQueue < 0 THEN 0 ELSE RateQueue
    BY <1>0, <1>3, <1>6, GatesAssumption DEF Rate!TypeOK
  <2>2. caller' \in [Callers -> {"new", "queued", "through", "refused"}]
    BY <1>0, <1>1 DEF Rate!TypeOK
  <2>. QED  BY <1>0, <1>5, <1>6, <1>7, <2>1, <2>2 DEF Rate!TypeOK, Rate!Times
<1>9. ASSUME NEW c \in Callers, caller'[c] = "queued"
      PROVE  refillTimer' # None /\ c \in Rate!Range(pending')
  <2>1. caller[c] = "queued" /\ ~\E i \in 1..n : pending[i] = c
    BY <1>1, <1>9
  <2>2. PICK i \in DOMAIN pending : c = pending[i]
    BY <1>0, <2>1 DEF Rate!QueueHasTimer, Rate!Range
  <2>3. i \in 1..Len(pending) /\ i > n
    BY <1>0, <1>3, <2>1, <2>2
  <2>. QED  BY <1>0, <1>1, <1>3, <1>6, <2>2, <2>3, IntervalType
<1>. QED  BY <1>5, <1>8, <1>9 DEF RateInv, Rate!QueueHasTimer

LEMMA TickKept == ASSUME RateInv, Rate!Tick PROVE RateInv'
<1>0. /\ Rate!TypeOK /\ clock' = clock + 1 /\ clock + 1 \in Rate!Times /\ clock \in Rate!Times
      /\ UNCHANGED <<tokens, lastRefill, pending, refillTimer, caller, grants>>
      /\ grants \in [Rate!Times -> Nat] /\ clock \in Nat /\ lastRefill \in 0..clock
      /\ Limit \in Nat /\ WindowMs \in Nat \ {0} /\ tokens \in Nat /\ MaxTime \in Nat
      /\ Rate!Times = 0..MaxTime /\ Limit * WindowMs \in Nat
  <2>1. Limit * WindowMs \in Nat
    BY GatesAssumption, ProductNat
  <2>. QED  BY <2>1, GatesAssumption DEF Rate!Tick, RateInv, Rate!TypeOK, Rate!Times
<1>1. grants[clock + 1] = grants[clock]
  BY <1>0 DEF RateInv, NoneLater
<1>2. Rate!TypeOK'
  BY <1>0 DEF Rate!TypeOK
<1>3. NoneLater' /\ Rate!QueueHasTimer'
  BY <1>0, <1>1 DEF RateInv, NoneLater, Rate!QueueHasTimer
<1>4. ASSUME NEW from \in 0..clock'
      PROVE  Rate!Before(from)' = Rate!Before(from) /\ Rate!Before(from) \in Nat
  BY <1>0 DEF Rate!Before
<1>5. WithinBucket'
  <2>1. ASSUME NEW from \in 0..clock
        PROVE  IF from <= lastRefill
                 THEN (grants[clock + 1] - Rate!Before(from)) * WindowMs + tokens
                        <= Limit * WindowMs + (lastRefill - from) * Limit
                 ELSE grants[clock + 1] = Rate!Before(from)
    BY <1>1 DEF RateInv, WithinBucket
  <2>2. ~(clock + 1 <= lastRefill) /\ Rate!Before(clock + 1) = grants[clock + 1]
    BY <1>0, <1>1 DEF Rate!Before
  <2>3. \A from \in 0..clock' : from \in 0..clock \/ from = clock + 1
    BY <1>0
  <2>. QED  BY <1>0, <1>4, <2>1, <2>2, <2>3 DEF WithinBucket
<1>6. ASSUME NEW from \in 0..clock
      PROVE  (grants[clock] - Rate!Before(from)) * WindowMs <= Limit * WindowMs + (clock + 1 - from) * Limit
  <2>1. (grants[clock] - Rate!Before(from)) * WindowMs <= Limit * WindowMs + (clock - from) * Limit
    BY <1>0 DEF RateInv, Rate!RateHeld
  <2>2. (clock - from) * Limit <= (clock + 1 - from) * Limit
    BY <1>0, Grows
  <2>3. /\ (clock - from) * Limit \in Int /\ (clock + 1 - from) * Limit \in Int
        /\ (grants[clock] - Rate!Before(from)) * WindowMs \in Int
    BY <1>0, <1>4
  <2>. QED  BY <1>0, <2>1, <2>2, <2>3
<1>7. Rate!RateHeld'
  <2>. SUFFICES ASSUME NEW from \in 0..clock', NEW to \in 0..clock', from <= to
                PROVE  (grants[to] - Rate!Before(from)) * WindowMs
                         <= Limit * WindowMs + (to - from) * Limit
    BY <1>0, <1>4 DEF Rate!RateHeld
  <2>1. CASE to \in 0..clock
    <3>1. from \in 0..clock
      BY <1>0, <2>1
    <3>. QED  BY <2>1, <3>1 DEF RateInv, Rate!RateHeld
  <2>2. CASE to = clock + 1 /\ from \in 0..clock
    <3>1. grants[to] = grants[clock]
      BY <1>1, <2>2
    <3>2. (grants[clock] - Rate!Before(from)) * WindowMs <= Limit * WindowMs + (clock + 1 - from) * Limit
      BY <1>6, <2>2
    <3>3. to - from = clock + 1 - from
      BY <1>0, <2>2
    <3>. QED  BY <3>1, <3>2, <3>3
  <2>3. CASE to = clock + 1 /\ from = clock + 1
    <3>1. grants[to] - Rate!Before(from) = 0 /\ to - from = 0
      BY <1>0, <1>1, <2>3 DEF Rate!Before
    <3>. QED  BY <1>0, <3>1
  <2>. QED  BY <1>0, <2>1, <2>2, <2>3
<1>. QED  BY <1>2, <1>3, <1>5, <1>7 DEF RateInv

LEMMA RateKept == Spec => []RateInv
<1>1. ASSUME RateInv, Rate!Next PROVE RateInv'
  BY <1>1, AcquireKept, TimerKept, TickKept DEF Rate!Next
<1>2. ASSUME RateInv, UNCHANGED rateVars PROVE RateInv'
  <2>1. UNCHANGED <<clock, tokens, lastRefill, pending, refillTimer, caller, grants>>
    BY <1>2 DEF rateVars
  <2>2. \A t : Rate!Before(t)' = Rate!Before(t)
    BY <2>1 DEF Rate!Before
  <2>3. Rate!TypeOK' /\ Rate!QueueHasTimer' /\ NoneLater'
    BY <1>2, <2>1 DEF RateInv, Rate!TypeOK, Rate!QueueHasTimer, NoneLater
  <2>4. Rate!RateHeld' /\ WithinBucket'
    BY <1>2, <2>1, <2>2 DEF RateInv, Rate!RateHeld, WithinBucket
  <2>. QED  BY <2>3, <2>4 DEF RateInv
<1>3. RateInv /\ [Next]_gatesVars => RateInv'
  BY <1>1, <1>2, PartsMove DEF OnlyOf
<1>. QED  BY RateInit, <1>3, PTL DEF Spec

----------------------------------------------------------------------------
(* The talk over a WebSocket.                                              *)

\* The last message about a room that is in the buffer says where the client says it is.
Truthful ==
  \A r \in Origins : (\E i \in DOMAIN buffer : Talk!About(i, r)) =>
    \E i \in DOMAIN buffer : Talk!Last(i, r) /\ (buffer[i].kind = "join" <=> r \in rooms)

\* Unless messages are held back for want of a token, what a connection is open for is sent
\* at once; a client that was closed keeps nothing; and nobody waits for the buffer early.
BufferTrue ==
  /\ closed => buffer = <<>>
  /\ ~throttled => Truthful /\ (link = "open" => buffer = <<>>)
  /\ \A d \in Drainers : where[d] # "early"

TalkInv == Talk!TypeOK /\ Talk!RoomsAgree /\ Talk!TalkersWatched /\ BufferTrue

LEMMA TalkInit == Init => TalkInv
<1>. SUFFICES ASSUME Talk!Init PROVE TalkInv
  BY DEF Init
<1>. USE GatesAssumption DEF Talk!Init
<1>1. Talk!TypeOK
  <2>1. buffer \in Seq(Talk!Messages) /\ Len(buffer) <= MaxBuffer
    <3>1. buffer = <<>> /\ MaxBuffer \in Nat
      OBVIOUS
    <3>. QED  BY ONLY <3>1
  <2>2. rooms \subseteq Origins /\ joined = {} /\ heard = {}
    OBVIOUS
  <2>3. where \in [Talk!Askers \cup Drainers -> {"idle", "early", "waiting", "done", "failed", "late"}]
    OBVIOUS
  <2>4. /\ keeps \in BOOLEAN /\ throttled \in BOOLEAN /\ closed \in BOOLEAN /\ silent \in BOOLEAN
        /\ link \in {"closed", "away", "open"}
    OBVIOUS
  <2>. QED  BY ONLY <2>1, <2>2, <2>3, <2>4 DEF Talk!TypeOK
<1>2. Talk!RoomsAgree /\ Talk!TalkersWatched /\ BufferTrue
  BY DEF Talk!RoomsAgree, Talk!TalkersWatched, BufferTrue, Truthful
<1>. QED  BY <1>1, <1>2 DEF TalkInv

\* A message about a room, or about none, comes to the buffer.
LEMMA BufferKept ==
  ASSUME Talk!TypeOK, NEW m \in Talk!Messages, buffer' = Talk!Buffered(m)
  PROVE  /\ buffer' \in Seq(Talk!Messages) /\ Len(buffer') <= MaxBuffer /\ Len(buffer') >= Len(buffer)
         /\ Len(buffer') # 0
         /\ \E k \in {0, 1} :
              /\ k <= Len(buffer) /\ Len(buffer') = Len(buffer) - k + 1
              /\ \A i \in 1..(Len(buffer) - k) : buffer'[i] = buffer[i + k]
              /\ buffer'[Len(buffer')] = m
<1>. USE GatesAssumption
<1>1. buffer \in Seq(Talk!Messages) /\ Len(buffer) \in Nat /\ Len(buffer) <= MaxBuffer
  BY DEF Talk!TypeOK
<1>2. CASE Len(buffer) >= MaxBuffer
  <2>1. buffer' = Append(Tail(buffer), m) /\ buffer # <<>>
    BY <1>1, <1>2 DEF Talk!Buffered
  <2>2. Tail(buffer) \in Seq(Talk!Messages) /\ Len(Tail(buffer)) = Len(buffer) - 1
        /\ \A i \in 1..(Len(buffer) - 1) : Tail(buffer)[i] = buffer[i + 1]
    BY <1>1, <2>1
  <2>3. Len(buffer') = Len(buffer) /\ buffer' \in Seq(Talk!Messages) /\ buffer'[Len(buffer)] = m
        /\ \A i \in 1..(Len(buffer) - 1) : buffer'[i] = buffer[i + 1]
    BY <1>1, <2>1, <2>2
  <2>4. Len(buffer) # 0
    BY <1>1, <1>2
  <2>. QED  BY <1>1, <2>3, <2>4
<1>3. CASE Len(buffer) < MaxBuffer
  <2>1. buffer' = Append(buffer, m)
    BY <1>1, <1>3 DEF Talk!Buffered
  <2>2. Len(buffer') = Len(buffer) + 1 /\ buffer' \in Seq(Talk!Messages)
        /\ buffer'[Len(buffer) + 1] = m
        /\ \A i \in 1..Len(buffer) : buffer'[i] = buffer[i]
    BY <1>1, <2>1
  <2>. QED  BY <1>1, <1>3, <2>2, SMTT(20)
<1>. QED  BY <1>1, <1>2, <1>3

\* What a message about a room, or about none, makes of the rooms.
Tells(m) ==
  /\ m \in Talk!Messages /\ rooms' \subseteq Origins
  /\ \A r \in Origins : r \in rooms' <=> IF m.kind # "ask" /\ m.of = r THEN m.kind = "join"
                                                                   ELSE r \in rooms

\* The buffer goes on to tell the truth when it takes what is said of a room.
LEMMA TruthKept ==
  ASSUME Talk!TypeOK, Truthful, NEW m, Tells(m), buffer' = Talk!Buffered(m)
  PROVE  Truthful'
<1>. USE DEF Talk!About, Talk!Last
<1>1. PICK k \in {0, 1} :
        /\ k <= Len(buffer) /\ Len(buffer') = Len(buffer) - k + 1
        /\ \A i \in 1..(Len(buffer) - k) : buffer'[i] = buffer[i + k]
        /\ buffer'[Len(buffer')] = m
  BY BufferKept DEF Tells
<1>2. /\ buffer \in Seq(Talk!Messages) /\ Len(buffer) \in Nat /\ DOMAIN buffer = 1..Len(buffer)
      /\ buffer' \in Seq(Talk!Messages) /\ Len(buffer') \in Nat
      /\ DOMAIN buffer' = 1..Len(buffer')
  BY BufferKept DEF Tells, Talk!TypeOK
<1>. SUFFICES ASSUME NEW r \in Origins, \E i \in DOMAIN buffer' : Talk!About(i, r)'
              PROVE  \E i \in DOMAIN buffer' : Talk!Last(i, r)' /\ (buffer'[i].kind = "join" <=> r \in rooms')
  BY DEF Truthful
<1>3. CASE m.kind # "ask" /\ m.of = r
  <2>1. PICK n \in DOMAIN buffer' : n = Len(buffer') /\ \A j \in DOMAIN buffer' : ~(j > n)
    BY <1>1, <1>2
  <2>2. buffer'[n] = m
    BY <1>1, <2>1
  <2>3. Talk!Last(n, r)'
    BY <1>3, <2>1, <2>2
  <2>. QED  BY <1>3, <2>1, <2>2, <2>3 DEF Tells
<1>4. CASE ~(m.kind # "ask" /\ m.of = r)
  <2>1. PICK i \in DOMAIN buffer' : Talk!About(i, r)'
    OBVIOUS
  <2>2. i # Len(buffer')
    BY <1>1, <1>4, <2>1
  <2>3. i \in 1..(Len(buffer) - k) /\ i + k \in DOMAIN buffer /\ buffer'[i] = buffer[i + k]
    <3>. i \in Nat /\ k \in Nat /\ i \in 1..Len(buffer')
      BY <1>2
    <3>1. i \in 1..(Len(buffer) - k) /\ i + k \in DOMAIN buffer
      BY <1>1, <1>2, <2>2
    <3>. QED  BY <1>1, <3>1
  <2>4. PICK l \in DOMAIN buffer : Talk!Last(l, r) /\ (buffer[l].kind = "join" <=> r \in rooms)
    BY <2>1, <2>3 DEF Truthful
  <2>5. l >= i + k
    BY <1>2, <2>1, <2>3, <2>4
  <2>6. l - k \in 1..(Len(buffer) - k) /\ l - k \in DOMAIN buffer' /\ buffer'[l - k] = buffer[l]
    <3>. l \in Nat /\ k \in Nat /\ i \in Nat /\ l \in 1..Len(buffer)
      BY <1>2
    <3>1. l - k \in 1..(Len(buffer) - k) /\ l - k \in DOMAIN buffer'
      BY <1>1, <1>2, <2>3, <2>5
    <3>2. l - k + k = l
      OBVIOUS
    <3>. QED  BY <1>1, <3>1, <3>2
  <2>7. ASSUME NEW j \in DOMAIN buffer', j > l - k PROVE ~Talk!About(j, r)'
    <3>1. CASE j = Len(buffer')
      BY <1>1, <1>4, <3>1
    <3>2. CASE j # Len(buffer')
      <4>1. j \in 1..(Len(buffer) - k) /\ j + k \in DOMAIN buffer /\ j + k > l /\ buffer'[j] = buffer[j + k]
        <5>. l \in Nat /\ k \in Nat /\ j \in Nat /\ j \in 1..Len(buffer')
          BY <1>2
        <5>1. j <= Len(buffer') /\ j # Len(buffer') /\ Len(buffer') = Len(buffer) - k + 1
          BY <1>1, <3>2
        <5>2. j <= Len(buffer) - k /\ j >= 1
          BY <1>2, <5>1
        <5>3. j + k > l
          BY <2>7
        <5>. QED  BY <1>1, <1>2, <5>2, <5>3, SMTT(20)
      <4>. QED  BY <2>4, <4>1
    <3>. QED  BY <3>1, <3>2
  <2>8. Talk!Last(l - k, r)'
    BY <2>4, <2>6, <2>7
  <2>. QED  BY <1>4, <2>4, <2>6, <2>8 DEF Tells
<1>. QED  BY <1>3, <1>4

\* A message that is sent is told the server, and one that is not comes to the buffer.
LEMMA SendKept ==
  ASSUME TalkInv, NEW m, Tells(m), Talk!Send(m),
         UNCHANGED <<keeps, throttled, link, closed>>
  PROVE  /\ buffer' \in Seq(Talk!Messages) /\ Len(buffer') <= MaxBuffer
         /\ Len(buffer') \in Nat /\ Len(buffer') >= Len(buffer)
         /\ joined' \subseteq Origins /\ heard' \subseteq Inquirers
         /\ Talk!RoomsAgree' /\ (closed' => buffer' = <<>>)
         /\ (~throttled' => Truthful' /\ (link' = "open" => buffer' = <<>>))
<1>. USE GatesAssumption
<1>1. /\ buffer \in Seq(Talk!Messages) /\ Len(buffer) \in Nat /\ Len(buffer) <= MaxBuffer
      /\ joined \subseteq Origins /\ heard \subseteq Inquirers /\ rooms' \subseteq Origins
      /\ Talk!TypeOK /\ Talk!RoomsAgree /\ BufferTrue
  BY DEF TalkInv, Talk!TypeOK, Tells
<1>2. /\ m.kind \in {"join", "leave", "ask"} /\ (m.kind = "ask" => m.of \in Inquirers)
      /\ (m.kind # "ask" => m.of \in Origins)
  BY DEF Tells, Talk!Messages
<1>3. CASE link = "open" /\ Talk!Reach(m) /\ UNCHANGED buffer
  <2>1. joined' \subseteq Origins /\ heard' \subseteq Inquirers
    BY <1>1, <1>2, <1>3 DEF Talk!Reach
  <2>2. joined = rooms => joined' = rooms'
    BY <1>1, <1>2, <1>3 DEF Talk!Reach, Tells
  <2>3. ~throttled => buffer' = <<>>
    BY <1>1, <1>3 DEF BufferTrue
  <2>4. ~throttled => Truthful'
    BY <2>3 DEF Truthful, Talk!About
  <2>. QED  BY <1>1, <1>3, <2>1, <2>2, <2>3, <2>4 DEF BufferTrue, Talk!RoomsAgree
<1>4. CASE /\ link # "open" \/ throttled \/ Len(buffer) >= HighMark
           /\ buffer' = IF closed THEN buffer ELSE Talk!Buffered(m)
           /\ UNCHANGED <<joined, heard>>
  <2>1. ~throttled => link # "open"
    <3>1. ASSUME ~throttled, link = "open" PROVE FALSE
      <4>1. buffer = <<>> /\ Len(buffer) = 0
        BY <1>1, <3>1 DEF BufferTrue
      <4>. QED  BY <1>4, <3>1, <4>1
    <3>. QED  BY <3>1
  <2>2. CASE closed
    <3>1. buffer = <<>> /\ buffer' = <<>>
      BY <1>1, <1>4, <2>2 DEF BufferTrue
    <3>2. Truthful'
      BY <3>1 DEF Truthful, Talk!About
    <3>3. /\ buffer' \in Seq(Talk!Messages) /\ Len(buffer') <= MaxBuffer
          /\ Len(buffer') \in Nat /\ Len(buffer') >= Len(buffer)
      <4>. buffer' = buffer
        BY <3>1
      <4>. QED  BY <1>1
    <3>4. joined' \subseteq Origins /\ heard' \subseteq Inquirers /\ Talk!RoomsAgree'
      BY <1>1, <1>4, <2>1 DEF Talk!RoomsAgree
    <3>. QED  BY <2>1, <3>1, <3>2, <3>3, <3>4
  <2>3. CASE ~closed
    <3>1. buffer' = Talk!Buffered(m) /\ m \in Talk!Messages
      BY <1>4, <2>3 DEF Tells
    <3>2. buffer' \in Seq(Talk!Messages) /\ Len(buffer') <= MaxBuffer /\ Len(buffer') >= Len(buffer)
      BY <1>1, <3>1, BufferKept
    <3>3. ~throttled => Truthful'
      BY <1>1, <3>1, TruthKept DEF BufferTrue
    <3>. QED  BY <1>1, <1>4, <2>1, <2>3, <3>2, <3>3 DEF Talk!RoomsAgree
  <2>. QED  BY <2>2, <2>3
<1>. QED  BY <1>3, <1>4 DEF Talk!Send

\* Who stands where once some have been told something.
LEMMA ToldTells ==
  ASSUME Talk!TypeOK, NEW who, NEW what \in {"waiting", "done", "failed", "late"},
         Talk!Told(who, what)
  PROVE  /\ where' \in [Talk!Askers \cup Drainers ->
                          {"idle", "early", "waiting", "done", "failed", "late"}]
         /\ \A a \in Talk!Askers \cup Drainers :
              where'[a] = IF a \in who /\ where[a] \in {"early", "waiting"} THEN what ELSE where[a]
  BY DEF Talk!TypeOK, Talk!Told, Talk!Pending

\* The rooms once a message about one of them, or about none, has been sent or buffered.
LEMMA JoinTells ==
  ASSUME Talk!TypeOK, NEW r \in Origins,
         \/ rooms' = rooms \cup {r} /\ r \notin rooms
         \/ rooms' = rooms \ {r}
  PROVE  /\ rooms' = rooms \cup {r} => Tells([kind |-> "join", of |-> r])
         /\ rooms' = rooms \ {r} => Tells([kind |-> "leave", of |-> r])
<1>. USE DEF Talk!TypeOK, Tells, Talk!Messages
<1>1. [kind |-> "join", of |-> r] \in Talk!Messages /\ [kind |-> "leave", of |-> r] \in Talk!Messages
  OBVIOUS
<1>. QED  BY <1>1

LEMMA AskTells ==
  ASSUME Talk!TypeOK, NEW q \in Inquirers, rooms' = rooms
  PROVE  Tells([kind |-> "ask", of |-> q])
  BY DEF Talk!TypeOK, Tells, Talk!Messages

\* The rooms are joined anew and what the buffer says of them is the truth.
LEMMA ReplayedTrue ==
  ASSUME Talk!TypeOK, Truthful
  PROVE  Talk!Replayed(rooms) = rooms
<1>. USE DEF Talk!About, Talk!Last
<1>0. DOMAIN buffer \subseteq Nat /\ rooms \subseteq Origins
  BY DEF Talk!TypeOK
<1>. SUFFICES ASSUME NEW r \in Origins PROVE r \in Talk!Replayed(rooms) <=> r \in rooms
  BY <1>0 DEF Talk!Replayed
<1>1. CASE \A i \in DOMAIN buffer : ~Talk!About(i, r)
  BY <1>1 DEF Talk!Replayed
<1>2. CASE \E i \in DOMAIN buffer : Talk!About(i, r)
  <2>1. PICK i \in DOMAIN buffer : Talk!Last(i, r) /\ (buffer[i].kind = "join" <=> r \in rooms)
    BY <1>2 DEF Truthful
  <2>2. \A j \in DOMAIN buffer : Talk!Last(j, r) => j = i
    BY <1>0, <2>1
  <2>. QED  BY <1>2, <2>1, <2>2 DEF Talk!Replayed
<1>. QED  BY <1>1, <1>2

\* Drainers and those who ask are of two kinds.
LEMMA TalkersApart == \A a \in Talk!Askers : a \notin Drainers
  BY GatesAssumption DEF Talk!Askers

\* The connection comes, goes, and is closed.
LEMMA LinkNext ==
  ASSUME TalkInv, \/ Talk!Connect \/ Talk!Opens \/ Talk!Drops \/ Talk!Ends \/ Talk!EndsSilently
                  \/ Talk!Close
  PROVE  TalkInv'
<1>. USE GatesAssumption, TalkersApart
<1>. USE DEF Talk!RoomsAgree, Talk!TalkersWatched, BufferTrue
<1>1. /\ Talk!TypeOK /\ Talk!RoomsAgree /\ Talk!TalkersWatched /\ BufferTrue
      /\ buffer \in Seq(Talk!Messages) /\ Len(buffer) \in Nat
      /\ rooms \subseteq Origins
  BY DEF TalkInv, Talk!TypeOK
<1>2. buffer' = buffer /\ rooms' = rooms => (Truthful' <=> Truthful)
  BY DEF Truthful, Talk!About, Talk!Last
<1>3. buffer' = <<>> => Truthful' /\ Len(buffer') = 0 /\ buffer' \in Seq(Talk!Messages)
  BY DEF Truthful, Talk!About
<1>4. CASE Talk!Connect
  <2>1. /\ where' \in [Talk!Askers \cup Drainers ->
                         {"idle", "early", "waiting", "done", "failed", "late"}]
        /\ \A d \in Drainers : where'[d] = where[d]
    BY <1>1, <1>4, ToldTells DEF Talk!Connect
  <2>2. Talk!TypeOK'
    BY <1>1, <1>4, <2>1 DEF Talk!Connect, Talk!TypeOK
  <2>. QED  BY <1>1, <1>2, <1>4, <2>1, <2>2 DEF Talk!Connect, TalkInv
<1>5. CASE Talk!Opens
  <2>1. /\ where' \in [Talk!Askers \cup Drainers ->
                         {"idle", "early", "waiting", "done", "failed", "late"}]
        /\ \A a \in Talk!Askers \cup Drainers :
             where'[a] = IF a \in Openers \cup Drainers /\ where[a] \in {"early", "waiting"}
                           THEN "done" ELSE where[a]
    BY <1>1, <1>5, ToldTells DEF Talk!Opens
  <2>2. joined' \subseteq Origins /\ heard' \subseteq Inquirers
    BY <1>5 DEF Talk!Opens, Talk!Replayed
  <2>3. Talk!TypeOK'
    BY <1>1, <1>3, <1>5, <2>1, <2>2 DEF Talk!Opens, Talk!TypeOK
  <2>4. keeps /\ ~throttled => joined' = rooms
    BY <1>1, <1>5, ReplayedTrue DEF Talk!Opens
  <2>5. Talk!RoomsAgree' /\ BufferTrue'
    BY <1>1, <1>3, <1>5, <2>1, <2>4 DEF Talk!Opens
  <2>6. Talk!TalkersWatched'
    BY <1>1, <1>5, <2>1 DEF Talk!Opens
  <2>. QED  BY <2>3, <2>5, <2>6 DEF TalkInv
<1>6. CASE Talk!Drops
  <2>1. Talk!TypeOK'
    BY <1>1, <1>6 DEF Talk!Drops, Talk!TypeOK
  <2>. QED  BY <1>1, <1>2, <1>6, <2>1 DEF Talk!Drops, TalkInv
<1>7. CASE Talk!Ends
  <2>1. /\ where' \in [Talk!Askers \cup Drainers ->
                         {"idle", "early", "waiting", "done", "failed", "late"}]
        /\ \A a \in Talk!Askers \cup Drainers :
             where'[a] = IF a \in Talk!Askers /\ where[a] \in {"early", "waiting"}
                           THEN "failed" ELSE where[a]
    BY <1>1, <1>7, ToldTells DEF Talk!Ends, Talk!Ended, Talk!Tells
  <2>2. Talk!TypeOK'
    BY <1>1, <1>7, <2>1 DEF Talk!Ends, Talk!Ended, Talk!TypeOK
  <2>. QED  BY <1>1, <1>2, <1>7, <2>1, <2>2 DEF Talk!Ends, Talk!Ended, TalkInv
<1>8. CASE Talk!EndsSilently
  <2>1. /\ where' \in [Talk!Askers \cup Drainers ->
                         {"idle", "early", "waiting", "done", "failed", "late"}]
        /\ \A a \in Talk!Askers \cup Drainers : where'[a] = where[a]
    BY <1>1, <1>8, ToldTells DEF Talk!EndsSilently, Talk!Ended
  <2>2. Talk!TypeOK'
    BY <1>1, <1>8, <2>1 DEF Talk!EndsSilently, Talk!Ended, Talk!TypeOK
  <2>. QED  BY <1>1, <1>2, <1>8, <2>1, <2>2 DEF Talk!EndsSilently, Talk!Ended, TalkInv
<1>9. CASE Talk!Close
  <2>1. /\ where' \in [Talk!Askers \cup Drainers ->
                         {"idle", "early", "waiting", "done", "failed", "late"}]
        /\ \A a \in Talk!Askers \cup Drainers : where'[a] \notin {"early", "waiting"}
    BY <1>1, <1>9 DEF Talk!Close, Talk!Pending, Talk!TypeOK
  <2>2. Talk!TypeOK'
    BY <1>1, <1>3, <1>9, <2>1 DEF Talk!Close, Talk!TypeOK
  <2>. QED  BY <1>1, <1>3, <1>9, <2>1, <2>2 DEF Talk!Close, TalkInv
<1>. QED  BY <1>4, <1>5, <1>6, <1>7, <1>8, <1>9

\* The calls of the client, the answers and the timeouts.
LEMMA CallNext ==
  ASSUME TalkInv,
         \/ Talk!DrainBuffer
         \/ \E r \in Origins : Talk!Join(r) \/ Talk!Leave(r)
         \/ \E q \in Inquirers : Talk!Request(q) \/ Talk!Reply(q)
         \/ \E o \in Openers : Talk!WaitForOpen(o)
         \/ \E d \in Drainers : Talk!Drain(d)
         \/ \E a \in Talk!Askers \cup Drainers : Talk!TimeOut(a)
  PROVE  TalkInv'
<1>. USE GatesAssumption, TalkersApart
<1>. USE DEF Talk!RoomsAgree, Talk!TalkersWatched, BufferTrue
<1>1. /\ Talk!TypeOK /\ Talk!RoomsAgree /\ Talk!TalkersWatched /\ BufferTrue
      /\ buffer \in Seq(Talk!Messages) /\ Len(buffer) \in Nat
      /\ where \in [Talk!Askers \cup Drainers ->
                      {"idle", "early", "waiting", "done", "failed", "late"}]
  BY DEF TalkInv, Talk!TypeOK
<1>2. buffer' = buffer /\ rooms' = rooms => (Truthful' <=> Truthful)
  BY DEF Truthful, Talk!About, Talk!Last
<1>3. CASE Talk!DrainBuffer
  <2>1. /\ where' \in [Talk!Askers \cup Drainers ->
                         {"idle", "early", "waiting", "done", "failed", "late"}]
        /\ \A a \in Talk!Askers \cup Drainers :
             where'[a] = IF a \in Drainers /\ where[a] \in {"early", "waiting"}
                           THEN "done" ELSE where[a]
    BY <1>1, <1>3, ToldTells DEF Talk!DrainBuffer
  <2>2. Truthful' /\ Len(buffer') = 0 /\ buffer' \in Seq(Talk!Messages)
    BY <1>3 DEF Talk!DrainBuffer, Truthful, Talk!About
  <2>3. Talk!TypeOK'
    BY <1>1, <1>3, <2>1, <2>2 DEF Talk!DrainBuffer, Talk!TypeOK
  <2>. QED  BY <1>1, <1>3, <2>1, <2>2, <2>3 DEF Talk!DrainBuffer, TalkInv
<1>4. ASSUME NEW m, Tells(m), Talk!Send(m), UNCHANGED <<keeps, throttled, link, closed, silent>>,
             where' \in [Talk!Askers \cup Drainers ->
                           {"idle", "early", "waiting", "done", "failed", "late"}],
             \A a \in Talk!Askers \cup Drainers :
               where'[a] # where[a] => a \in Talk!Askers /\ (link = "closed" => where'[a] # "waiting")
      PROVE  TalkInv'
  <2>1. /\ buffer' \in Seq(Talk!Messages) /\ Len(buffer') <= MaxBuffer
        /\ Len(buffer') \in Nat /\ Len(buffer') >= Len(buffer)
        /\ joined' \subseteq Origins /\ heard' \subseteq Inquirers
        /\ Talk!RoomsAgree' /\ (closed' => buffer' = <<>>)
        /\ (~throttled' => Truthful' /\ (link' = "open" => buffer' = <<>>))
    BY <1>4, SendKept
  <2>2. Talk!TypeOK'
    BY <1>1, <1>4, <2>1 DEF Talk!TypeOK, Tells
  <2>3. \A d \in Drainers : where'[d] = where[d]
    BY <1>4
  <2>4. BufferTrue'
    BY <1>1, <2>1, <2>3
  <2>5. Talk!TalkersWatched'
    <3>1. \A d \in Drainers : where'[d] = "waiting" => Len(buffer') >= LowMark
      BY <1>1, <2>1, <2>3
    <3>2. link' = "closed" /\ ~silent' => \A a \in Talk!Askers : where'[a] # "waiting"
      BY <1>1, <1>4
    <3>. QED  BY <3>1, <3>2
  <2>. QED  BY <2>1, <2>2, <2>4, <2>5 DEF TalkInv
<1>5. ASSUME NEW r \in Origins, Talk!Join(r) PROVE TalkInv'
  BY <1>1, <1>4, <1>5, JoinTells DEF Talk!Join
<1>6. ASSUME NEW r \in Origins, Talk!Leave(r) PROVE TalkInv'
  BY <1>1, <1>4, <1>6, JoinTells DEF Talk!Leave
<1>7. ASSUME NEW q \in Inquirers, Talk!Request(q) PROVE TalkInv'
  <2>1. q \in Talk!Askers /\ where' = [where EXCEPT ![q] = Talk!Asked]
        /\ Talk!Asked \in {"early", "waiting"} /\ (link = "closed" => Talk!Asked = "early")
    BY <1>7 DEF Talk!Request, Talk!Asked, Talk!Askers
  <2>. QED  BY <1>1, <1>4, <1>7, <2>1, AskTells DEF Talk!Request
<1>8. ASSUME NEW q \in Inquirers, Talk!Reply(q) PROVE TalkInv'
  <2>1. /\ where' \in [Talk!Askers \cup Drainers ->
                         {"idle", "early", "waiting", "done", "failed", "late"}]
        /\ \A a \in Talk!Askers \cup Drainers : where'[a] \in {where[a], "done"}
    BY <1>1, <1>8, ToldTells DEF Talk!Reply
  <2>2. Talk!TypeOK'
    BY <1>1, <1>8, <2>1 DEF Talk!Reply, Talk!TypeOK
  <2>. QED  BY <1>1, <1>2, <1>8, <2>1, <2>2 DEF Talk!Reply, TalkInv
<1>9. ASSUME NEW o \in Openers, Talk!WaitForOpen(o) PROVE TalkInv'
  <2>1. PICK w \in {"done", "early", "waiting"} :
          o \in Talk!Askers /\ where' = [where EXCEPT ![o] = w] /\ (link = "closed" => w # "waiting")
    BY <1>9 DEF Talk!WaitForOpen, Talk!Asked, Talk!Askers
  <2>2. Talk!TypeOK'
    BY <1>1, <1>9, <2>1 DEF Talk!WaitForOpen, Talk!TypeOK
  <2>. QED  BY <1>1, <1>2, <1>9, <2>1, <2>2 DEF Talk!WaitForOpen, TalkInv
<1>10. ASSUME NEW d \in Drainers, Talk!Drain(d) PROVE TalkInv'
  <2>1. PICK w \in {"done", "failed", "waiting"} :
          where' = [where EXCEPT ![d] = w] /\ (w = "waiting" => Len(buffer) >= LowMark)
    <3>1. CASE link = "closed"
      BY <1>10, <3>1 DEF Talk!Drain
    <3>2. CASE link # "closed" /\ Len(buffer) < LowMark
      BY <1>10, <3>2 DEF Talk!Drain
    <3>3. CASE link # "closed" /\ ~(Len(buffer) < LowMark)
      <4>1. Len(buffer) >= LowMark
        BY <1>1, <3>3
      <4>. QED  BY <1>10, <3>3, <4>1 DEF Talk!Drain
    <3>. QED  BY <3>1, <3>2, <3>3
  <2>2. Talk!TypeOK'
    BY <1>1, <1>10, <2>1 DEF Talk!Drain, Talk!TypeOK
  <2>. QED  BY <1>1, <1>2, <1>10, <2>1, <2>2 DEF Talk!Drain, TalkInv
<1>11. ASSUME NEW a \in Talk!Askers \cup Drainers, Talk!TimeOut(a) PROVE TalkInv'
  <2>1. /\ where' \in [Talk!Askers \cup Drainers ->
                         {"idle", "early", "waiting", "done", "failed", "late"}]
        /\ \A b \in Talk!Askers \cup Drainers : where'[b] \in {where[b], "late"}
    BY <1>1, <1>11, ToldTells DEF Talk!TimeOut
  <2>2. Talk!TypeOK'
    BY <1>1, <1>11, <2>1 DEF Talk!TimeOut, Talk!TypeOK
  <2>. QED  BY <1>1, <1>2, <1>11, <2>1, <2>2 DEF Talk!TimeOut, TalkInv
<1>. QED  BY <1>3, <1>5, <1>6, <1>7, <1>8, <1>9, <1>10, <1>11

LEMMA TalkKept == Spec => []TalkInv
<1>1. TalkInv /\ [Next]_gatesVars => TalkInv'
  <2>. SUFFICES ASSUME TalkInv, [Next]_gatesVars PROVE TalkInv'
    OBVIOUS
  <2>1. CASE Talk!Next
    BY <2>1, LinkNext, CallNext DEF Talk!Next
  <2>2. CASE UNCHANGED talkVars
    BY <2>2 DEF talkVars, TalkInv, Talk!TypeOK, Talk!RoomsAgree, Talk!TalkersWatched, BufferTrue,
                Truthful, Talk!About, Talk!Last
  <2>. QED  BY <2>1, <2>2, PartsMove DEF OnlyOf
<1>. QED  BY <1>1, TalkInit, PTL DEF Spec

----------------------------------------------------------------------------
(* The HTTP/2 sessions.                                                    *)

\* The times of use are in one order, and they, the sessions and the ping timers are of the
\* same origins.
UsageOrdered ==
  /\ usage \subseteq Sessions!OnRecord \X Sessions!OnRecord
  /\ \A p, q \in Sessions!OnRecord : <<p, q>> \in usage \/ <<q, p>> \in usage
  /\ \A p, q, o \in Origins : <<p, q>> \in usage /\ <<q, o>> \in usage => <<p, o>> \in usage

BooksTrue == usage \subseteq Origins \X Origins /\ UsageOrdered /\ Sessions!BooksAgree

LEMMA BooksStay ==
  ASSUME BooksTrue, pool' = pool, usage' = usage, timers' = timers
  PROVE  BooksTrue'
  BY DEF BooksTrue, UsageOrdered, Sessions!BooksAgree, Sessions!OnRecord, Sessions!Pooled

\* An eviction takes the origin from all the books.
LEMMA EvictedTrue ==
  ASSUME BooksTrue, NEW O \in SUBSET Origins,
         pool' = Sessions!Evicted(O).pool, usage' = Sessions!Evicted(O).usage,
         timers' = Sessions!Evicted(O).timers
  PROVE  BooksTrue' /\ Sessions!Pooled' = Sessions!Pooled \ O
<1>. USE DEF Sessions!Evicted, Sessions!Among, Sessions!OnRecord, Sessions!Pooled
<1>1. /\ usage' = usage \cap ((Origins \ O) \X (Origins \ O))
      /\ timers' = timers \ O
      /\ pool' = [o \in Origins |-> IF o \in O THEN None ELSE pool[o]]
  OBVIOUS
<1>2. \A p, q \in Origins : <<p, q>> \in usage' <=> <<p, q>> \in usage /\ p \notin O /\ q \notin O
  BY <1>1
<1>3. Sessions!OnRecord' = Sessions!OnRecord \ O /\ Sessions!Pooled' = Sessions!Pooled \ O
  BY <1>1, <1>2
<1>4. usage' \subseteq Origins \X Origins
  BY <1>1 DEF BooksTrue
<1>5. usage' \subseteq Sessions!OnRecord' \X Sessions!OnRecord'
  <2>. SUFFICES ASSUME NEW u \in usage' PROVE u \in Sessions!OnRecord' \X Sessions!OnRecord'
    OBVIOUS
  <2>1. PICK p, q \in Origins : u = <<p, q>>
    BY <1>4
  <2>2. p \in Sessions!OnRecord /\ q \in Sessions!OnRecord /\ p \notin O /\ q \notin O
    BY <1>2, <2>1 DEF BooksTrue, UsageOrdered
  <2>. QED  BY <1>3, <2>1, <2>2 DEF Sessions!OnRecord
<1>6. UsageOrdered'
  BY <1>2, <1>3, <1>5 DEF BooksTrue, UsageOrdered
<1>. QED  BY <1>1, <1>3, <1>4, <1>6 DEF BooksTrue, Sessions!BooksAgree

\* An origin that is used becomes the last in the order.
LEMMA TouchedTrue ==
  ASSUME BooksTrue, NEW o \in Origins, usage' = Sessions!Touched(o),
         Sessions!Pooled' = Sessions!Pooled \cup {o}, timers' = timers \cup {o}
  PROVE  BooksTrue'
<1>. USE DEF Sessions!Touched, Sessions!Among, Sessions!OnRecord
<1>1. usage' = (usage \cap ((Origins \ {o}) \X (Origins \ {o}))) \cup ((Sessions!OnRecord \cup {o}) \X {o})
  OBVIOUS
<1>2. \A p, q \in Origins : <<p, q>> \in usage' <=> \/ <<p, q>> \in usage /\ p # o /\ q # o
                                                    \/ q = o /\ p \in Sessions!OnRecord \cup {o}
  BY <1>1
<1>3. Sessions!OnRecord' = Sessions!OnRecord \cup {o}
  BY <1>2
<1>4. usage' \subseteq Origins \X Origins
  BY <1>1 DEF BooksTrue
<1>5. usage' \subseteq Sessions!OnRecord' \X Sessions!OnRecord'
  <2>. SUFFICES ASSUME NEW u \in usage' PROVE u \in Sessions!OnRecord' \X Sessions!OnRecord'
    OBVIOUS
  <2>1. PICK p, q \in Origins : u = <<p, q>>
    BY <1>4
  <2>2. p \in Sessions!OnRecord \cup {o} /\ q \in Sessions!OnRecord \cup {o}
    BY <1>2, <2>1 DEF BooksTrue, UsageOrdered
  <2>. QED  BY <1>3, <2>1, <2>2
<1>6. \A p, q \in Origins : <<p, q>> \in usage => p \in Sessions!OnRecord /\ q \in Sessions!OnRecord
  BY DEF BooksTrue, UsageOrdered
<1>7. UsageOrdered'
  BY <1>2, <1>3, <1>5, <1>6 DEF BooksTrue, UsageOrdered
<1>. QED  BY <1>3, <1>4, <1>7 DEF BooksTrue, Sessions!BooksAgree

\* Of some origins on record one was used before the others.
LEMMA LeastThere ==
  ASSUME BooksTrue, NEW S \in SUBSET Sessions!OnRecord, S # {}
  PROVE  Sessions!LeastUsed(S) # {}
<1>. DEFINE Earlier(p) == {q \in Origins : <<q, p>> \in usage}
            All == {Earlier(p) : p \in S}
<1>1. IsFiniteSet(Origins) /\ S \subseteq Origins
  BY GatesAssumption DEF Sessions!OnRecord
<1>2. All \subseteq FiniteSubsetsOf(Origins) /\ All # {}
  <2>1. FiniteSubsetsOf(Origins) = SUBSET Origins
    BY <1>1, FS_FiniteSubsetsOfFinite
  <2>2. \A p : Earlier(p) \in SUBSET Origins
    OBVIOUS
  <2>3. All \subseteq SUBSET Origins /\ All # {}
    BY <2>2
  <2>. QED  BY ONLY <2>1, <2>3
<1>3. PICK E \in All : \A F \in All : ~(<<F, E>> \in StrictSubsetOrdering(Origins))
  <2>. HIDE DEF All
  <2>. QED  BY <1>2, FS_StrictSubsetOrderingWellFounded, WFMin
<1>4. PICK p \in S : E = Earlier(p)
  OBVIOUS
<1>5. ASSUME NEW q \in S, <<p, q>> \notin usage PROVE FALSE
  <2>1. <<q, p>> \in usage /\ <<p, p>> \in usage
    BY <1>5 DEF BooksTrue, UsageOrdered, Sessions!OnRecord
  <2>2. Earlier(q) \subseteq Earlier(p) /\ p \in Earlier(p) /\ p \notin Earlier(q)
    BY <1>1, <1>5, <2>1 DEF BooksTrue, UsageOrdered
  <2>3. <<Earlier(q), Earlier(p)>> \in StrictSubsetOrdering(Origins)
    BY <2>2 DEF StrictSubsetOrdering
  <2>. QED  BY <1>3, <1>4, <2>3
<1>. QED  BY <1>5 DEF Sessions!LeastUsed

\* A creation is that of a request that leads, and has a session of its own that connects;
\* a session that anything may still be heard of knows its origin.
CreationsTrue ==
  /\ \A o \in Origins : creating[o] # None =>
       creating[o] \in Sessions!Leading /\ req[creating[o]].origin = o
  /\ \A r \in Sessions!Leading :
       /\ req[r].origin \in Origins /\ req[r].on \in Names
       /\ ses[req[r].on].state = "connecting" /\ ses[req[r].on].origin = req[r].origin
  /\ \A r, q \in Sessions!Leading : req[r].on = req[q].on => r = q
  /\ \A s \in Names : ses[s].state = "connecting" => s \notin pinged /\ \A o \in Origins : pool[o] # s
  /\ \A s \in Names : ses[s].state # "dead" \/ s \in pinged => ses[s].origin \in Origins

\* An origin for which a session is made has none, unless it was emptied for another's sake.
NoneWhileMade == ~strayed => \A o \in Origins : creating[o] # None => pool[o] = None

SessionInv ==
  /\ Sessions!TypeOK /\ BooksTrue /\ CreationsTrue
  /\ Sessions!NobodyForgotten /\ Sessions!OneSession /\ NoneWhileMade

LEMMA SessionInit == Init => SessionInv
<1>. SUFFICES ASSUME Sessions!Init PROVE SessionInv
  BY DEF Init
<1>. USE GatesAssumption DEF Sessions!Init, Sessions!Buried, Sessions!Standing, Sessions!Leading
<1>1. Sessions!TypeOK
  <2>1. ses \in [Names -> [state : {"connecting", "live", "closed", "dead"},
                           origin : Origins \cup {None}, aged : BOOLEAN]]
    OBVIOUS
  <2>2. req \in [Requests -> [at : {"idle", "leading", "joined", "sending", "done", "failed"},
                              origin : Origins \cup {None}, on : Names \cup {None},
                              leader : Requests \cup {None}]]
    OBVIOUS
  <2>3. /\ pool \in [Origins -> Names \cup {None}] /\ creating \in [Origins -> Requests \cup {None}]
        /\ usage \subseteq Origins \X Origins /\ timers \subseteq Origins /\ pinged \subseteq Names
    OBVIOUS
  <2>. QED  BY <2>1, <2>2, <2>3 DEF Sessions!TypeOK
<1>2. BooksTrue
  BY DEF BooksTrue, UsageOrdered, Sessions!BooksAgree, Sessions!OnRecord, Sessions!Pooled
<1>3. CreationsTrue /\ Sessions!NobodyForgotten /\ NoneWhileMade
  BY DEF CreationsTrue, Sessions!NobodyForgotten, NoneWhileMade
<1>4. Sessions!OneSession
  <2>1. Sessions!Pooled = {} /\ Sessions!Leading = {}
    BY DEF Sessions!Pooled
  <2>2. Sessions!Cardinality({}) = 0
    BY SameCount, FS_EmptySet
  <2>3. MaxSessions \in Nat
    OBVIOUS
  <2>4. Sessions!Cardinality(Sessions!Pooled) = 0 /\ Sessions!Cardinality(Sessions!Leading) = 0
    BY <2>1, <2>2, Zenon
  <2>5. Sessions!Cardinality(Sessions!Pooled) + Sessions!Cardinality(Sessions!Leading) <= MaxSessions
    BY <2>3, <2>4
  <2>. QED  BY <2>1, <2>5 DEF Sessions!OneSession
<1>. QED  BY <1>1, <1>2, <1>3, <1>4 DEF SessionInv

\* Of finite sets the smaller has no more.
LEMMA CountKept ==
  ASSUME Sessions!TypeOK, NEW P \in SUBSET Sessions!Pooled, NEW L \in SUBSET Sessions!Leading
  PROVE  /\ Sessions!Cardinality(P) \in Nat /\ Sessions!Cardinality(L) \in Nat
         /\ Sessions!Cardinality(Sessions!Pooled) \in Nat /\ Sessions!Cardinality(Sessions!Leading) \in Nat
         /\ Sessions!Cardinality(P) <= Sessions!Cardinality(Sessions!Pooled)
         /\ Sessions!Cardinality(L) <= Sessions!Cardinality(Sessions!Leading)
<1>1. IsFiniteSet(Sessions!Pooled) /\ IsFiniteSet(Sessions!Leading)
  BY GatesAssumption, FS_Subset DEF Sessions!Pooled, Sessions!Leading
<1>2. IsFiniteSet(P) /\ IsFiniteSet(L)
  BY <1>1, FS_Subset
<1>3. /\ Cardinality(P) \in Nat /\ Cardinality(L) \in Nat
      /\ Cardinality(Sessions!Pooled) \in Nat /\ Cardinality(Sessions!Leading) \in Nat
  BY <1>1, <1>2, FS_CardinalityType
<1>4. Cardinality(P) <= Cardinality(Sessions!Pooled) /\ Cardinality(L) <= Cardinality(Sessions!Leading)
  BY <1>1, FS_Subset
<1>. QED  BY <1>3, <1>4, SameCount

\* What a session is, and what it has become.
SessionStates == [state : {"connecting", "live", "closed", "dead"},
                  origin : Origins \cup {None}, aged : BOOLEAN]

LEMMA StatesKept ==
  ASSUME Sessions!TypeOK, NEW s \in Names, NEW v \in SessionStates, ses' = [ses EXCEPT ![s] = v]
  PROVE  /\ ses' \in [Names -> SessionStates] /\ ses'[s] = v
         /\ \A t \in Names : t # s => ses'[t] = ses[t]
<1>1. ses \in [Names -> SessionStates]
  BY DEF Sessions!TypeOK, SessionStates
<1>. QED  BY <1>1

LEMMA StatesMade ==
  ASSUME Sessions!TypeOK, NEW s \in Names
  PROVE  /\ [ses[s] EXCEPT !.state = "closed", !.aged = FALSE] \in SessionStates
         /\ [ses[s] EXCEPT !.state = "closed", !.aged = FALSE].state = "closed"
         /\ [ses[s] EXCEPT !.state = "closed", !.aged = FALSE].origin = ses[s].origin
         /\ [ses[s] EXCEPT !.state = "live"] \in SessionStates
         /\ [ses[s] EXCEPT !.state = "live"].state = "live"
         /\ [ses[s] EXCEPT !.state = "live"].origin = ses[s].origin
         /\ [ses[s] EXCEPT !.aged = TRUE] \in SessionStates
         /\ [ses[s] EXCEPT !.aged = TRUE].state = ses[s].state
         /\ [ses[s] EXCEPT !.aged = TRUE].origin = ses[s].origin
         /\ Sessions!Dead(s, pinged) \in SessionStates /\ Sessions!Dead(s, pinged).state = "dead"
         /\ (s \in pinged => Sessions!Dead(s, pinged).origin = ses[s].origin)
         /\ Sessions!Buried \in SessionStates /\ Sessions!Buried.state = "dead"
<1>1. ses[s] \in SessionStates
  BY DEF Sessions!TypeOK, SessionStates
<1>2. \A x \in SessionStates :
        /\ [x EXCEPT !.state = "closed", !.aged = FALSE] \in SessionStates
        /\ [x EXCEPT !.state = "closed", !.aged = FALSE].state = "closed"
        /\ [x EXCEPT !.state = "closed", !.aged = FALSE].origin = x.origin
  BY DEF SessionStates
<1>3. \A x \in SessionStates :
        /\ [x EXCEPT !.state = "live"] \in SessionStates
        /\ [x EXCEPT !.state = "live"].state = "live"
        /\ [x EXCEPT !.state = "live"].origin = x.origin
  BY DEF SessionStates
<1>4. \A x \in SessionStates :
        /\ [x EXCEPT !.aged = TRUE] \in SessionStates
        /\ [x EXCEPT !.aged = TRUE].state = x.state
        /\ [x EXCEPT !.aged = TRUE].origin = x.origin
  BY DEF SessionStates
<1>5. \A x \in SessionStates :
        /\ [x EXCEPT !.state = "dead", !.aged = FALSE] \in SessionStates
        /\ [x EXCEPT !.state = "dead", !.aged = FALSE].state = "dead"
        /\ [x EXCEPT !.state = "dead", !.aged = FALSE].origin = x.origin
  BY DEF SessionStates
<1>6. Sessions!Buried \in SessionStates /\ Sessions!Buried.state = "dead"
  BY DEF Sessions!Buried, SessionStates
<1>7. /\ Sessions!Dead(s, pinged) \in SessionStates /\ Sessions!Dead(s, pinged).state = "dead"
      /\ (s \in pinged => Sessions!Dead(s, pinged).origin = ses[s].origin)
  BY <1>1, <1>5, <1>6 DEF Sessions!Dead
<1>. QED  BY <1>1, <1>2, <1>3, <1>4, <1>6, <1>7

\* A session that ends, and origins that are evicted, undo no creation; and while no origin
\* is emptied for another's sake, the sessions that stay up are those that stay pooled.
LEMMA EvictKept ==
  ASSUME SessionInv, NEW O \in SUBSET Origins, Sessions!SetBooks(Sessions!Evicted(O)),
         UNCHANGED <<req, crowded>>, strayed' \in BOOLEAN, strayed => strayed',
         ses' \in [Names -> SessionStates],
         pinged' \subseteq Names,
         \A s \in Names : ses[s].state = "connecting" => ses'[s] = ses[s] /\ s \notin pinged',
         \A s \in Names : ses'[s].state = "connecting" => ses[s].state = "connecting",
         \A s \in Names : ses'[s].state # "dead" \/ s \in pinged' => ses'[s].origin \in Origins,
         ~strayed' =>
           /\ \A o \in O : creating[o] = None
           /\ \A s \in Names : ses'[s].state = "live" =>
                ses[s].state = "live" /\ ses'[s].origin = ses[s].origin /\ ses[s].origin \notin O
  PROVE  SessionInv'
<1>. USE GatesAssumption
<1>1. /\ Sessions!TypeOK /\ BooksTrue /\ CreationsTrue
      /\ Sessions!NobodyForgotten /\ Sessions!OneSession /\ NoneWhileMade
  BY DEF SessionInv
<1>2. /\ pool' = [o \in Origins |-> IF o \in O THEN None ELSE pool[o]]
      /\ creating' = [o \in Origins |-> IF o \in O THEN None ELSE creating[o]]
      /\ usage' = Sessions!Among(Origins \ O) /\ timers' = timers \ O
  BY DEF Sessions!SetBooks, Sessions!Evicted
<1>3. BooksTrue' /\ Sessions!Pooled' = Sessions!Pooled \ O
  BY <1>1, EvictedTrue DEF Sessions!SetBooks
<1>4. Sessions!Leading' = Sessions!Leading
  BY DEF Sessions!Leading
<1>5. Sessions!TypeOK'
  <2>1. pool' \in [Origins -> Names \cup {None}] /\ creating' \in [Origins -> Requests \cup {None}]
        /\ timers' \subseteq Origins
    BY <1>1, <1>2 DEF Sessions!TypeOK
  <2>. QED  BY <1>1, <1>3, <2>1 DEF Sessions!TypeOK, BooksTrue, SessionStates
<1>6. CreationsTrue'
  <2>1. \A o \in Origins : creating'[o] # None =>
          creating'[o] \in Sessions!Leading' /\ req'[creating'[o]].origin = o
    BY <1>1, <1>2, <1>4 DEF CreationsTrue
  <2>2. \A r \in Sessions!Leading' :
          /\ req'[r].origin \in Origins /\ req'[r].on \in Names
          /\ ses'[req'[r].on].state = "connecting" /\ ses'[req'[r].on].origin = req'[r].origin
    BY <1>1, <1>4 DEF CreationsTrue
  <2>3. \A r, q \in Sessions!Leading' : req'[r].on = req'[q].on => r = q
    BY <1>1, <1>4 DEF CreationsTrue
  <2>4. \A s \in Names : ses'[s].state = "connecting" => s \notin pinged' /\ \A o \in Origins : pool'[o] # s
    BY <1>1, <1>2 DEF CreationsTrue
  <2>. QED  BY <2>1, <2>2, <2>3, <2>4 DEF CreationsTrue
<1>7. Sessions!NobodyForgotten'
  BY <1>1, <1>4 DEF Sessions!NobodyForgotten
<1>8. Sessions!OneSession' /\ NoneWhileMade'
  <2>. SUFFICES ASSUME ~strayed' PROVE Sessions!OneSession' /\ NoneWhileMade'
    BY DEF Sessions!OneSession, NoneWhileMade
  <2>1. \A r \in Sessions!Leading' : creating'[req'[r].origin] = r
    <3>. SUFFICES ASSUME NEW r \in Sessions!Leading PROVE creating'[req[r].origin] = r
      BY <1>4
    <3>1. creating[req[r].origin] = r /\ req[r].origin \in Origins /\ r # None
      BY <1>1 DEF Sessions!OneSession, CreationsTrue, Sessions!Leading
    <3>. QED  BY <1>2, <3>1
  <2>2. \A s \in Names : ses'[s].state = "live" => pool'[ses'[s].origin] = s
    BY <1>1, <1>2 DEF Sessions!OneSession
  <2>3. ~crowded' => Sessions!Cardinality(Sessions!Pooled)' + Sessions!Cardinality(Sessions!Leading)'
                       <= MaxSessions
    <3>1. ~crowded => Sessions!Cardinality(Sessions!Pooled) + Sessions!Cardinality(Sessions!Leading)
                        <= MaxSessions
      BY <1>1 DEF Sessions!OneSession
    <3>. DEFINE P == Sessions!Pooled \ O
    <3>2. Sessions!Cardinality(P) \in Nat /\ Sessions!Cardinality(Sessions!Leading) \in Nat
          /\ Sessions!Cardinality(Sessions!Pooled) \in Nat
          /\ Sessions!Cardinality(P) <= Sessions!Cardinality(Sessions!Pooled)
      BY <1>1, CountKept
    <3>3. ~crowded => Sessions!Cardinality(P) + Sessions!Cardinality(Sessions!Leading) <= MaxSessions
      BY <3>1, <3>2
    <3>. QED  BY <1>3, <1>4, <3>3
  <2>4. \A o \in Origins : creating'[o] # None => pool'[o] = None
    BY <1>1, <1>2 DEF NoneWhileMade
  <2>. QED  BY <2>1, <2>2, <2>3, <2>4 DEF Sessions!OneSession, NoneWhileMade
<1>. QED  BY <1>3, <1>5, <1>6, <1>7, <1>8 DEF SessionInv

\* _evictSession of an origin for the sake of s: it was the origin's, or the origin had none.
LEMMA EvictOne ==
  ASSUME SessionInv, NEW o \in Origins, NEW s, s # None, Sessions!Evict(o, s)
  PROVE  /\ strayed' \in BOOLEAN /\ (strayed => strayed') /\ Sessions!SetBooks(Sessions!Evicted({o}))
         /\ ~strayed' => /\ creating[o] = None
                         /\ \A t \in Names : ses[t].state = "live" /\ t # s => ses[t].origin # o
<1>1. strayed \in BOOLEAN /\ strayed' = (strayed \/ (pool[o] # s /\ (pool[o] # None \/ creating[o] # None)))
  BY DEF SessionInv, Sessions!TypeOK, Sessions!Evict
<1>2. ASSUME ~strayed' PROVE creating[o] = None
  BY <1>1, <1>2 DEF SessionInv, NoneWhileMade
<1>3. ASSUME ~strayed', NEW t \in Names, ses[t].state = "live", t # s PROVE ses[t].origin # o
  BY <1>1, <1>3, GatesAssumption DEF SessionInv, Sessions!OneSession
<1>. QED  BY <1>1, <1>2, <1>3 DEF Sessions!Evict

\* What happens to the sessions: they age, end, are pinged and are closed by the server.
LEMMA SessionEvents ==
  ASSUME SessionInv,
         \/ \E s \in Names : \/ Sessions!GoAway(s) \/ Sessions!SessionError(s) \/ Sessions!Hangup(s)
                             \/ Sessions!Ages(s) \/ Sessions!PingAnswered(s) \/ Sessions!PingFails(s)
         \/ \E o \in Origins : Sessions!PingTimer(o)
         \/ Sessions!Destroy
  PROVE  SessionInv'
<1>. USE GatesAssumption
<1>1. /\ Sessions!TypeOK /\ BooksTrue /\ CreationsTrue /\ Sessions!OneSession
      /\ ses \in [Names -> SessionStates]
      /\ pinged \subseteq Names /\ strayed \in BOOLEAN
      /\ pool \in [Origins -> Names \cup {None}] /\ creating \in [Origins -> Requests \cup {None}]
      /\ None \notin Names
  BY DEF SessionInv, Sessions!TypeOK, SessionStates
<1>2. \A s \in Names : ses[s].state = "connecting" => s \notin pinged /\ \A o \in Origins : pool[o] # s
  BY <1>1 DEF CreationsTrue
<1>3. \A s \in Names : ses[s].state # "dead" \/ s \in pinged => ses[s].origin \in Origins
  BY <1>1 DEF CreationsTrue
\* Evicting nothing leaves the books as they are.
<1>4. UNCHANGED <<pool, usage, timers, creating>> => Sessions!SetBooks(Sessions!Evicted({}))
  <2>. SUFFICES ASSUME UNCHANGED <<pool, usage, timers, creating>>
                PROVE  Sessions!SetBooks(Sessions!Evicted({}))
    OBVIOUS
  <2>1. pool = [o \in Origins |-> IF o \in {} THEN None ELSE pool[o]]
        /\ creating = [o \in Origins |-> IF o \in {} THEN None ELSE creating[o]]
    BY <1>1
  <2>2. usage = Sessions!Among(Origins \ {}) /\ timers = timers \ {}
    BY <1>1 DEF BooksTrue, Sessions!Among
  <2>. QED  BY <2>1, <2>2 DEF Sessions!SetBooks, Sessions!Evicted
<1>5. ASSUME NEW s \in Names, Sessions!GoAway(s) PROVE SessionInv'
  <2>. DEFINE o == ses[s].origin
  <2>1. ses[s].state \in {"live", "closed"} /\ o \in Origins /\ s # None
        /\ ses' = [ses EXCEPT ![s].state = "closed", ![s].aged = FALSE]
        /\ Sessions!Evict(o, s) /\ UNCHANGED <<pinged, req, crowded>>
    BY <1>1, <1>3, <1>5 DEF Sessions!GoAway
  <2>. HIDE DEF o
  <2>2. /\ strayed' \in BOOLEAN /\ (strayed => strayed') /\ Sessions!SetBooks(Sessions!Evicted({o}))
        /\ ~strayed' => /\ creating[o] = None
                        /\ \A t \in Names : ses[t].state = "live" /\ t # s => ses[t].origin # o
    BY <2>1, EvictOne
  <2>3. /\ ses' \in [Names -> SessionStates]
        /\ \A t \in Names : ses'[t].origin = ses[t].origin /\ (t # s => ses'[t] = ses[t])
        /\ ses'[s].state = "closed"
    <3>. DEFINE v == [ses[s] EXCEPT !.state = "closed", !.aged = FALSE]
    <3>1. ses' = [ses EXCEPT ![s] = v]
      BY <2>1
    <3>2. v \in SessionStates /\ v.state = "closed" /\ v.origin = ses[s].origin
      BY <1>1, StatesMade
    <3>. HIDE DEF v
    <3>. QED  BY <1>1, <3>1, <3>2, StatesKept
  <2>. QED  BY <1>1, <1>2, <1>3, <2>1, <2>2, <2>3, EvictKept
<1>6. ASSUME NEW s \in Names, Sessions!SessionError(s) PROVE SessionInv'
  <2>. DEFINE o == ses[s].origin
  <2>1. ses[s].state \in {"live", "closed"} /\ o \in Origins /\ s # None
        /\ ses' = [ses EXCEPT ![s] = Sessions!Dead(s, pinged)]
        /\ Sessions!Evict(o, s) /\ UNCHANGED <<pinged, req, crowded>>
    BY <1>1, <1>3, <1>6 DEF Sessions!SessionError, Sessions!Dies
  <2>. HIDE DEF o
  <2>2. /\ strayed' \in BOOLEAN /\ (strayed => strayed') /\ Sessions!SetBooks(Sessions!Evicted({o}))
        /\ ~strayed' => /\ creating[o] = None
                        /\ \A t \in Names : ses[t].state = "live" /\ t # s => ses[t].origin # o
    BY <2>1, EvictOne
  <2>3. /\ ses' \in [Names -> SessionStates]
        /\ \A t \in Names : (t # s => ses'[t] = ses[t])
        /\ ses'[s].state = "dead" /\ (s \in pinged => ses'[s].origin = ses[s].origin)
    BY <1>1, <2>1, StatesKept, StatesMade
  <2>. QED  BY <1>1, <1>2, <1>3, <2>1, <2>2, <2>3, EvictKept
<1>7. ASSUME NEW s \in Names, Sessions!Hangup(s) PROVE SessionInv'
  <2>1. ses[s].state \in {"live", "closed"} /\ ses' = [ses EXCEPT ![s] = Sessions!Dead(s, pinged)]
        /\ Sessions!SetBooks(Sessions!Evicted({})) /\ UNCHANGED <<pinged, req, crowded, strayed>>
    BY <1>4, <1>7 DEF Sessions!Hangup, Sessions!Dies, Sessions!books
  <2>2. /\ ses' \in [Names -> SessionStates]
        /\ \A t \in Names : (t # s => ses'[t] = ses[t])
        /\ ses'[s].state = "dead" /\ (s \in pinged => ses'[s].origin = ses[s].origin)
    BY <1>1, <2>1, StatesKept, StatesMade
  <2>. QED  BY <1>1, <1>2, <1>3, <2>1, <2>2, EvictKept
<1>8. ASSUME NEW s \in Names, Sessions!Ages(s) PROVE SessionInv'
  <2>1. ses[s].state = "live" /\ ses' = [ses EXCEPT ![s].aged = TRUE]
        /\ Sessions!SetBooks(Sessions!Evicted({})) /\ UNCHANGED <<pinged, req, crowded, strayed>>
    BY <1>4, <1>8 DEF Sessions!Ages, Sessions!books
  <2>2. /\ ses' \in [Names -> SessionStates]
        /\ \A t \in Names : /\ (t # s => ses'[t] = ses[t])
                            /\ ses'[t].origin = ses[t].origin /\ ses'[t].state = ses[t].state
    <3>. DEFINE v == [ses[s] EXCEPT !.aged = TRUE]
    <3>1. ses' = [ses EXCEPT ![s] = v]
      BY <2>1
    <3>2. v \in SessionStates /\ v.state = ses[s].state /\ v.origin = ses[s].origin
      BY <1>1, StatesMade
    <3>. HIDE DEF v
    <3>. QED  BY <1>1, <3>1, <3>2, StatesKept
  <2>. QED  BY <1>1, <1>2, <1>3, <2>1, <2>2, EvictKept
<1>9. ASSUME NEW s \in Names, Sessions!PingAnswered(s) PROVE SessionInv'
  <2>1. pinged' = pinged \ {s}
        /\ Sessions!SetBooks(Sessions!Evicted({})) /\ UNCHANGED <<ses, req, crowded, strayed>>
    BY <1>4, <1>9 DEF Sessions!PingAnswered, Sessions!books
  <2>. QED  BY <1>1, <1>2, <1>3, <2>1, EvictKept
<1>10. ASSUME NEW s \in Names, Sessions!PingFails(s) PROVE SessionInv'
  <2>. DEFINE o == ses[s].origin
  <2>1. s \in pinged /\ pinged' = pinged \ {s} /\ o \in Origins /\ s # None
        /\ ses' = [ses EXCEPT ![s] = IF @.state = "closed" THEN @ ELSE Sessions!Buried]
        /\ Sessions!Evict(o, s) /\ UNCHANGED <<req, crowded>>
    BY <1>1, <1>3, <1>10 DEF Sessions!PingFails
  <2>. HIDE DEF o
  <2>2. /\ strayed' \in BOOLEAN /\ (strayed => strayed') /\ Sessions!SetBooks(Sessions!Evicted({o}))
        /\ ~strayed' => /\ creating[o] = None
                        /\ \A t \in Names : ses[t].state = "live" /\ t # s => ses[t].origin # o
    BY <2>1, EvictOne
  <2>3. /\ ses' \in [Names -> SessionStates]
        /\ \A t \in Names : (t # s => ses'[t] = ses[t])
        /\ ses'[s].state \in {"closed", "dead"} /\ ses[s].state # "connecting"
        /\ (ses'[s].state = "closed" => ses'[s] = ses[s])
    <3>. DEFINE v == IF ses[s].state = "closed" THEN ses[s] ELSE Sessions!Buried
    <3>1. ses' = [ses EXCEPT ![s] = v]
      BY <2>1
    <3>2. v \in SessionStates /\ (v = ses[s] \/ v.state = "dead") /\ v.state \in {"closed", "dead"}
      BY <1>1, StatesMade
    <3>. HIDE DEF v
    <3>3. ses[s].state # "connecting"
      BY <1>2, <2>1
    <3>. QED  BY <1>1, <3>1, <3>2, <3>3, StatesKept
  <2>. QED  BY <1>1, <1>2, <1>3, <2>1, <2>2, <2>3, EvictKept
<1>11. ASSUME NEW o \in Origins, Sessions!PingTimer(o) PROVE SessionInv'
  <2>1. pool[o] # None /\ pool[o] \in Names
    BY <1>1, <1>11 DEF Sessions!PingTimer, BooksTrue, Sessions!BooksAgree, Sessions!Pooled
  <2>2. CASE ses[pool[o]].state = "live"
    <3>1. pinged' = pinged \cup {pool[o]}
          /\ Sessions!SetBooks(Sessions!Evicted({})) /\ UNCHANGED <<ses, req, crowded, strayed>>
      BY <1>4, <1>11, <2>1, <2>2 DEF Sessions!PingTimer, Sessions!books
    <3>. QED  BY <1>1, <1>2, <1>3, <2>1, <2>2, <3>1, EvictKept
  <2>3. CASE ses[pool[o]].state # "live"
    <3>1. Sessions!Evict(o, pool[o]) /\ UNCHANGED <<ses, pinged, req, crowded>>
      BY <1>11, <2>1, <2>3 DEF Sessions!PingTimer
    <3>2. /\ strayed' \in BOOLEAN /\ (strayed => strayed') /\ Sessions!SetBooks(Sessions!Evicted({o}))
          /\ ~strayed' => /\ creating[o] = None
                          /\ \A t \in Names : ses[t].state = "live" /\ t # pool[o] => ses[t].origin # o
      BY <2>1, <3>1, EvictOne
    <3>. QED  BY <1>1, <1>2, <1>3, <2>1, <2>3, <3>1, <3>2, EvictKept
  <2>. QED  BY <2>2, <2>3
<1>12. CASE Sessions!Destroy
  <2>. DEFINE gone == {pool[o] : o \in Sessions!Pooled}
  <2>1. Sessions!SetBooks(Sessions!Evicted(Origins)) /\ ses' = Sessions!Destroyed(gone)
        /\ strayed' = (strayed \/ Sessions!Leading # {}) /\ UNCHANGED <<pinged, req, crowded>>
    BY <1>12 DEF Sessions!Destroy
  <2>2. \A s \in Names : ses'[s] = IF s \in gone /\ ses[s].state = "live"
                                     THEN Sessions!Dead(s, pinged) ELSE ses[s]
    BY <2>1 DEF Sessions!Destroyed
  <2>3. /\ ses' \in [Names -> SessionStates]
        /\ \A s \in Names : /\ ses'[s] # ses[s] => ses'[s].state = "dead" /\ ses[s].state = "live"
                            /\ s \in pinged => ses'[s].origin = ses[s].origin
    <3>1. \A s \in Names : ses'[s] \in SessionStates
      BY <1>1, <2>2, StatesMade
    <3>2. ses' \in [Names -> SessionStates]
      BY <2>1, <2>2, <3>1 DEF Sessions!Destroyed
    <3>3. ASSUME NEW s \in Names
          PROVE  /\ ses'[s] # ses[s] => ses'[s].state = "dead" /\ ses[s].state = "live"
                 /\ s \in pinged => ses'[s].origin = ses[s].origin
      <4>1. CASE s \in gone /\ ses[s].state = "live"
        <5>1. ses'[s] = Sessions!Dead(s, pinged)
          BY <2>2, <4>1
        <5>. HIDE DEF gone
        <5>. QED  BY <1>1, <4>1, <5>1, StatesMade
      <4>2. CASE ~(s \in gone /\ ses[s].state = "live")
        BY <2>2, <4>2
      <4>. QED  BY <4>1, <4>2
    <3>. QED  BY <3>2, <3>3
  <2>4. ASSUME ~strayed', NEW s \in Names, ses'[s].state = "live" PROVE FALSE
    <3>1. ses[s].state = "live" /\ pool[ses[s].origin] = s /\ ses[s].origin \in Origins
      BY <1>1, <1>3, <2>1, <2>3, <2>4 DEF Sessions!OneSession
    <3>2. s \in gone
      BY <1>1, <3>1 DEF Sessions!Pooled
    <3>3. ses'[s].state = "dead"
      BY <1>1, <2>2, <3>1, <3>2, StatesMade
    <3>. QED  BY <2>4, <3>3
  <2>5. ~strayed' => \A o \in Origins : creating[o] = None
    BY <1>1, <2>1 DEF CreationsTrue
  <2>. HIDE DEF gone
  <2>. QED  BY <1>1, <1>2, <1>3, <2>1, <2>3, <2>4, <2>5, EvictKept
<1>. QED  BY <1>5, <1>6, <1>7, <1>8, <1>9, <1>10, <1>11, <1>12

\* Where a request stands.
RequestStates == [at : {"idle", "leading", "joined", "sending", "done", "failed"},
                  origin : Origins \cup {None}, on : Names \cup {None},
                  leader : Requests \cup {None}]

\* A request that neither begins to lead nor leads leaves the creations alone.
LEMMA FollowerKept ==
  ASSUME SessionInv, NEW r \in Requests, NEW v \in RequestStates, req' = [req EXCEPT ![r] = v],
         req[r].at # "leading", v.at # "leading",
         v.at = "joined" => v.leader \in Sessions!Leading,
         UNCHANGED <<pool, timers, creating, ses, pinged, strayed, crowded>>, BooksTrue'
  PROVE  SessionInv'
<1>1. /\ Sessions!TypeOK /\ CreationsTrue /\ Sessions!NobodyForgotten /\ Sessions!OneSession
      /\ NoneWhileMade /\ req \in [Requests -> RequestStates]
  BY DEF SessionInv, Sessions!TypeOK, RequestStates
<1>2. /\ req' \in [Requests -> RequestStates] /\ req'[r] = v
      /\ \A q \in Requests : q # r => req'[q] = req[q]
  BY <1>1
<1>3. Sessions!Leading' = Sessions!Leading /\ \A q \in Sessions!Leading : req'[q] = req[q]
  BY <1>2 DEF Sessions!Leading
<1>4. Sessions!TypeOK'
  BY <1>1, <1>2 DEF Sessions!TypeOK, RequestStates, BooksTrue
<1>5. CreationsTrue'
  BY <1>1, <1>3 DEF CreationsTrue
<1>6. Sessions!NobodyForgotten'
  BY <1>1, <1>2, <1>3 DEF Sessions!NobodyForgotten
<1>7. Sessions!OneSession'
  <2>1. Sessions!Pooled' = Sessions!Pooled
    BY DEF Sessions!Pooled
  <2>. QED  BY <1>1, <1>3, <2>1 DEF Sessions!OneSession
<1>8. NoneWhileMade'
  BY <1>1 DEF NoneWhileMade
<1>. QED  BY <1>4, <1>5, <1>6, <1>7, <1>8 DEF SessionInv

LEMMA FollowersStep ==
  ASSUME SessionInv, NEW r \in Requests,
         \/ \E o \in Origins : req[r].at = "idle" /\ (Sessions!Reuse(r, o) \/ Sessions!Join(r, o))
         \/ Sessions!Answered(r)
  PROVE  SessionInv'
<1>1. BooksTrue /\ CreationsTrue /\ Sessions!TypeOK
  BY DEF SessionInv
<1>2. usage' = usage /\ pool' = pool /\ timers' = timers => BooksTrue'
  BY <1>1, BooksStay
<1>3. ASSUME NEW o \in Origins, req[r].at = "idle", Sessions!Reuse(r, o) PROVE SessionInv'
  <2>1. /\ pool[o] \in Names /\ usage' = Sessions!Touched(o)
        /\ req' = [req EXCEPT ![r] = [Sessions!Standing("sending") EXCEPT !.on = pool[o]]]
        /\ UNCHANGED <<pool, timers, creating, ses, pinged, strayed, crowded>>
    BY <1>1, <1>3 DEF Sessions!Reuse, Sessions!Usable, Sessions!TypeOK
  <2>2. o \in Sessions!Pooled /\ o \in timers
    BY <1>1, <1>3, GatesAssumption
    DEF Sessions!Reuse, Sessions!Usable, Sessions!Pooled, BooksTrue, Sessions!BooksAgree
  <2>3. Sessions!Pooled' = Sessions!Pooled \cup {o} /\ timers' = timers \cup {o}
    BY <2>1, <2>2 DEF Sessions!Pooled
  <2>4. BooksTrue'
    BY <1>1, <2>1, <2>3, TouchedTrue
  <2>. DEFINE v == [Sessions!Standing("sending") EXCEPT !.on = pool[o]]
  <2>5. v \in RequestStates /\ v.at = "sending"
    BY <2>1 DEF Sessions!Standing, RequestStates
  <2>. HIDE DEF v
  <2>. QED  BY <1>3, <2>1, <2>4, <2>5, FollowerKept DEF v
<1>4. ASSUME NEW o \in Origins, req[r].at = "idle", Sessions!Join(r, o) PROVE SessionInv'
  <2>1. /\ creating[o] \in Requests /\ creating[o] \in Sessions!Leading
        /\ req' = [req EXCEPT ![r] = [Sessions!Standing("joined") EXCEPT !.leader = creating[o]]]
        /\ UNCHANGED <<pool, usage, timers, creating, ses, pinged, strayed, crowded>>
    BY <1>1, <1>4 DEF Sessions!Join, Sessions!books, CreationsTrue, Sessions!Leading
  <2>. DEFINE v == [Sessions!Standing("joined") EXCEPT !.leader = creating[o]]
  <2>2. v \in RequestStates /\ v.at = "joined" /\ v.leader = creating[o]
    BY <2>1 DEF Sessions!Standing, RequestStates
  <2>. HIDE DEF v
  <2>. QED  BY <1>2, <1>4, <2>1, <2>2, FollowerKept DEF v
<1>5. ASSUME Sessions!Answered(r) PROVE SessionInv'
  <2>1. PICK end \in {"done", "failed"} : req' = [req EXCEPT ![r] = Sessions!Standing(end)]
    BY <1>5 DEF Sessions!Answered
  <2>2. req[r].at = "sending" /\ UNCHANGED <<pool, usage, timers, creating, ses, pinged, strayed, crowded>>
    BY <1>5 DEF Sessions!Answered, Sessions!books
  <2>. DEFINE v == Sessions!Standing(end)
  <2>3. v \in RequestStates /\ v.at = end
    BY DEF Sessions!Standing, RequestStates
  <2>. HIDE DEF v
  <2>. QED  BY <1>2, <2>1, <2>2, <2>3, FollowerKept DEF v
<1>. QED  BY <1>3, <1>4, <1>5

\* Those who joined a creation go where it goes, and its marker goes with it.
LEMMA SharedTells ==
  ASSUME SessionInv, NEW r \in Sessions!Leading, NEW stand \in {"sending", "failed"},
         NEW s \in Names \cup {None}, Sessions!Shared(r, stand, s), Sessions!Unmark(r)
  PROVE  /\ req' \in [Requests -> RequestStates]
         /\ Sessions!Leading' = Sessions!Leading \ {r}
         /\ \A q \in Sessions!Leading \ {r} : req'[q] = req[q]
         /\ \A q \in Requests : req'[q].at = "joined" =>
              req[q].at = "joined" /\ req'[q] = req[q] /\ req[q].leader # r
         /\ creating' \in [Origins -> Requests \cup {None}]
         /\ \A o \in Origins : creating'[o] = IF creating[o] = r THEN None ELSE creating[o]
<1>1. /\ req \in [Requests -> RequestStates] /\ CreationsTrue /\ r \in Requests /\ req[r].at = "leading"
      /\ creating \in [Origins -> Requests \cup {None}] /\ None \notin Requests
  BY GatesAssumption DEF SessionInv, Sessions!TypeOK, RequestStates, Sessions!Leading
<1>. DEFINE v == [Sessions!Standing(stand) EXCEPT !.on = s]
<1>2. v \in RequestStates /\ v.at = stand
  BY DEF Sessions!Standing, RequestStates
<1>3. req' = [q \in Requests |-> IF q = r \/ (req[q].at = "joined" /\ req[q].leader = r) THEN v ELSE req[q]]
  BY DEF Sessions!Shared
<1>. HIDE DEF v
<1>4. /\ req' \in [Requests -> RequestStates]
      /\ \A q \in Requests : req'[q] = IF q = r \/ (req[q].at = "joined" /\ req[q].leader = r)
                                         THEN v ELSE req[q]
  BY <1>1, <1>2, <1>3
<1>5. Sessions!Leading' = Sessions!Leading \ {r} /\ \A q \in Sessions!Leading \ {r} : req'[q] = req[q]
  BY <1>1, <1>2, <1>4 DEF Sessions!Leading
<1>6. \A q \in Requests : req'[q].at = "joined" =>
        req[q].at = "joined" /\ req'[q] = req[q] /\ req[q].leader # r
  BY <1>1, <1>2, <1>4
<1>7. \A o \in Origins : creating[o] = r => o = req[r].origin
  BY <1>1 DEF CreationsTrue
<1>8. creating' = [creating EXCEPT ![req[r].origin] = IF @ = r THEN None ELSE @]
  BY DEF Sessions!Unmark
<1>. QED  BY <1>1, <1>4, <1>5, <1>6, <1>7, <1>8

\* A creation ends: its session takes the place of whatever its origin holds, or there is none.
LEMMA CreationEnds ==
  ASSUME SessionInv, NEW r \in Sessions!Leading,
         Sessions!Connected(r) \/ Sessions!ConnectFails(r)
  PROVE  SessionInv'
<1>. USE GatesAssumption
<1>. DEFINE o == req[r].origin
            s == req[r].on
<1>1. /\ Sessions!TypeOK /\ BooksTrue /\ CreationsTrue
      /\ Sessions!NobodyForgotten /\ Sessions!OneSession /\ NoneWhileMade
      /\ r # None /\ pool \in [Origins -> Names \cup {None}] /\ None \notin Names
      /\ UNCHANGED <<pinged, strayed, crowded>>
  BY DEF SessionInv, Sessions!TypeOK, Sessions!Leading, Sessions!Connected, Sessions!ConnectFails
<1>2. /\ o \in Origins /\ s \in Names /\ ses[s].state = "connecting" /\ ses[s].origin = o
      /\ s \notin pinged /\ \A p \in Origins : pool[p] # s
      /\ \A q \in Sessions!Leading \ {r} : req[q].on # s
  BY <1>1 DEF CreationsTrue
<1>. HIDE DEF o, s
<1>3. /\ req' \in [Requests -> RequestStates]
      /\ Sessions!Leading' = Sessions!Leading \ {r}
      /\ \A q \in Sessions!Leading \ {r} : req'[q] = req[q]
      /\ \A q \in Requests : req'[q].at = "joined" =>
           req[q].at = "joined" /\ req'[q] = req[q] /\ req[q].leader # r
      /\ creating' \in [Origins -> Requests \cup {None}]
      /\ \A p \in Origins : creating'[p] = IF creating[p] = r THEN None ELSE creating[p]
  BY <1>2, SharedTells DEF Sessions!Connected, Sessions!ConnectFails, s
<1>4. PICK v \in SessionStates :
        /\ ses' = [ses EXCEPT ![s] = v]
        /\ \/ Sessions!Connected(r) /\ v.state = "live" /\ v.origin = o
           \/ Sessions!ConnectFails(r) /\ v.state = "dead"
  <2>1. ASSUME Sessions!Connected(r)
        PROVE  ses' = [ses EXCEPT ![s] = [ses[s] EXCEPT !.state = "live"]]
    BY <2>1 DEF Sessions!Connected, s
  <2>2. ASSUME Sessions!ConnectFails(r) PROVE ses' = [ses EXCEPT ![s] = Sessions!Buried]
    BY <2>2 DEF Sessions!ConnectFails, s
  <2>. QED  BY <1>1, <1>2, <2>1, <2>2, StatesMade
<1>5. ses' \in [Names -> SessionStates] /\ ses'[s] = v /\ \A t \in Names : t # s => ses'[t] = ses[t]
  BY <1>1, <1>2, <1>4, StatesKept
<1>6. /\ \/ Sessions!Connected(r) /\ v.state = "live" /\ v.origin = o
            /\ pool' = [pool EXCEPT ![o] = s] /\ usage' = Sessions!Touched(o) /\ timers' = timers \cup {o}
         \/ Sessions!ConnectFails(r) /\ v.state = "dead" /\ UNCHANGED <<pool, usage, timers>>
  BY <1>4 DEF Sessions!Connected, Sessions!ConnectFails, o, s
<1>7. /\ pool' \in [Origins -> Names \cup {None}] /\ timers' \subseteq Origins
      /\ \A p \in Origins : pool'[p] = pool[p] \/ (p = o /\ pool'[p] = s /\ v.state = "live")
      /\ v.state = "live" => pool'[o] = s
      /\ Sessions!Pooled' \in {Sessions!Pooled, Sessions!Pooled \cup {o}}
      /\ v.state = "live" => Sessions!Pooled' = Sessions!Pooled \cup {o}
  BY <1>1, <1>2, <1>6 DEF Sessions!Pooled, Sessions!TypeOK
<1>8. BooksTrue'
  <2>1. CASE v.state = "live"
    BY <1>1, <1>2, <1>6, <1>7, <2>1, TouchedTrue
  <2>2. CASE v.state # "live"
    <3>. UNCHANGED <<pool, usage, timers>>
      BY <1>6, <2>2
    <3>. QED  BY <1>1, BooksStay
  <2>. QED  BY <2>1, <2>2
<1>9. Sessions!TypeOK'
  BY <1>1, <1>3, <1>5, <1>7, <1>8 DEF Sessions!TypeOK, BooksTrue, SessionStates, RequestStates
<1>10. CreationsTrue'
  <2>1. \A p \in Origins : creating'[p] # None =>
          creating'[p] \in Sessions!Leading' /\ req'[creating'[p]].origin = p
    BY <1>1, <1>3 DEF CreationsTrue
  <2>2. \A q \in Sessions!Leading' :
          /\ req'[q].origin \in Origins /\ req'[q].on \in Names
          /\ ses'[req'[q].on].state = "connecting" /\ ses'[req'[q].on].origin = req'[q].origin
    BY <1>1, <1>2, <1>3, <1>5 DEF CreationsTrue
  <2>3. \A q, u \in Sessions!Leading' : req'[q].on = req'[u].on => q = u
    BY <1>1, <1>3 DEF CreationsTrue
  <2>4. v.state # "connecting" /\ (v.state # "dead" => v.origin = o)
    BY <1>6
  <2>5. \A t \in Names : ses'[t].state = "connecting" => t \notin pinged' /\ \A p \in Origins : pool'[p] # t
    BY <1>1, <1>5, <1>7, <2>4 DEF CreationsTrue
  <2>6. \A t \in Names : ses'[t].state # "dead" \/ t \in pinged' => ses'[t].origin \in Origins
    BY <1>1, <1>2, <1>5, <2>4 DEF CreationsTrue
  <2>. QED  BY <2>1, <2>2, <2>3, <2>5, <2>6 DEF CreationsTrue
<1>11. Sessions!NobodyForgotten'
  BY <1>1, <1>3 DEF Sessions!NobodyForgotten
<1>12. Sessions!OneSession' /\ NoneWhileMade'
  <2>. SUFFICES ASSUME ~strayed PROVE Sessions!OneSession' /\ NoneWhileMade'
    BY <1>1 DEF Sessions!OneSession, NoneWhileMade
  <2>1. creating[o] = r /\ pool[o] = None
    BY <1>1, <1>2 DEF Sessions!OneSession, NoneWhileMade, o
  <2>2. \A q \in Sessions!Leading' : creating'[req'[q].origin] = q
    BY <1>1, <1>3 DEF Sessions!OneSession, CreationsTrue
  <2>3. \A t \in Names : ses'[t].state = "live" => pool'[ses'[t].origin] = t
    <3>. SUFFICES ASSUME NEW t \in Names, ses'[t].state = "live" PROVE pool'[ses'[t].origin] = t
      OBVIOUS
    <3>1. CASE t = s
      BY <1>5, <1>6, <1>7, <3>1
    <3>2. CASE t # s
      <4>1. ses'[t] = ses[t] /\ pool[ses[t].origin] = t /\ ses[t].origin \in Origins
        BY <1>1, <1>5, <3>2 DEF Sessions!OneSession, CreationsTrue
      <4>2. ses[t].origin # o
        BY <1>1, <2>1, <4>1
      <4>. QED  BY <1>7, <4>1, <4>2
    <3>. QED  BY <3>1, <3>2
  <2>4. ~crowded => Sessions!Cardinality(Sessions!Pooled)' + Sessions!Cardinality(Sessions!Leading)'
                      <= MaxSessions
    <3>1. ~crowded => Sessions!Cardinality(Sessions!Pooled) + Sessions!Cardinality(Sessions!Leading)
                        <= MaxSessions
      BY <1>1 DEF Sessions!OneSession
    <3>2. /\ Cardinality(Sessions!Pooled \cup {o}) <= Cardinality(Sessions!Pooled) + 1
          /\ Cardinality(Sessions!Leading \ {r}) = Cardinality(Sessions!Leading) - 1
          /\ Cardinality(Sessions!Pooled \cup {o}) \in Nat
          /\ Cardinality(Sessions!Pooled) \in Nat /\ Cardinality(Sessions!Leading) \in Nat
      <4>1. IsFiniteSet(Sessions!Pooled) /\ IsFiniteSet(Sessions!Leading)
        BY FS_Subset DEF Sessions!Pooled, Sessions!Leading
      <4>2. IsFiniteSet(Sessions!Pooled \cup {o})
        BY <4>1, FS_AddElement
      <4>3. /\ Cardinality(Sessions!Pooled \cup {o}) \in Nat /\ Cardinality(Sessions!Pooled) \in Nat
            /\ Cardinality(Sessions!Leading) \in Nat
        BY <4>1, <4>2, FS_CardinalityType
      <4>4. Cardinality(Sessions!Pooled \cup {o}) <= Cardinality(Sessions!Pooled) + 1
        <5>1. Cardinality(Sessions!Pooled \cup {o}) =
                IF o \in Sessions!Pooled THEN Cardinality(Sessions!Pooled) ELSE Cardinality(Sessions!Pooled) + 1
          BY <4>1, FS_AddElement
        <5>. QED  BY ONLY <4>3, <5>1
      <4>5. Cardinality(Sessions!Leading \ {r}) = Cardinality(Sessions!Leading) - 1
        BY <4>1, FS_RemoveElement
      <4>. QED  BY <4>3, <4>4, <4>5
    <3>3. /\ Cardinality(Sessions!Pooled)' <= Cardinality(Sessions!Pooled) + 1
          /\ Cardinality(Sessions!Leading)' = Cardinality(Sessions!Leading) - 1
          /\ Cardinality(Sessions!Pooled)' \in Nat
      <4>1. CASE Sessions!Pooled' = Sessions!Pooled
        BY <1>3, <3>2, <4>1
      <4>2. CASE Sessions!Pooled' = Sessions!Pooled \cup {o}
        BY <1>3, <3>2, <4>2
      <4>. QED  BY <1>7, <4>1, <4>2
    <3>. DEFINE c == Cardinality(Sessions!Pooled)
                d == Cardinality(Sessions!Leading)
    <3>4. ~crowded => c + d <= MaxSessions
      BY <3>1, SameCount
    <3>5. c' <= c + 1 /\ d' = d - 1 /\ c \in Nat /\ d \in Nat /\ c' \in Nat
      BY <3>2, <3>3
    <3>. HIDE DEF c, d
    <3>6. ~crowded => c' + d' <= MaxSessions
      BY <3>4, <3>5
    <3>. QED  BY <3>6, SameCount DEF c, d
  <2>5. \A p \in Origins : creating'[p] # None => pool'[p] = None
    BY <1>1, <1>3, <1>7, <2>1 DEF NoneWhileMade
  <2>. QED  BY <1>1, <2>2, <2>3, <2>4, <2>5 DEF Sessions!OneSession, NoneWhileMade
<1>. QED  BY <1>8, <1>9, <1>10, <1>11, <1>12 DEF SessionInv

\* What room is made removes: the origin's own session, and one more if the pool is full.
LEMMA RoomMade ==
  ASSUME SessionInv, NEW o \in Origins
  PROVE  /\ Sessions!MakeRoom(o) \subseteq Origins
         /\ o \in Sessions!Pooled => o \in Sessions!MakeRoom(o)
         /\ Cardinality(Sessions!Pooled) <= MaxSessions =>
              Cardinality(Sessions!Pooled \ Sessions!MakeRoom(o)) + 1 <= MaxSessions
<1>. USE GatesAssumption
<1>. DEFINE own  == {o} \cap Sessions!Pooled
            rest == Sessions!Pooled \ own
            O    == Sessions!MakeRoom(o)
            least == Sessions!LeastUsed(rest)
<1>1. Sessions!OnRecord = Sessions!Pooled /\ Sessions!Pooled \subseteq Origins /\ BooksTrue
  BY DEF SessionInv, BooksTrue, Sessions!BooksAgree, Sessions!Pooled
<1>2. least \subseteq rest
  BY DEF Sessions!LeastUsed
<1>3. O = own \cup (IF Cardinality(rest) >= MaxSessions THEN least ELSE {})
  BY <1>1, SameCount DEF Sessions!MakeRoom
<1>4. O \subseteq Origins /\ (o \in Sessions!Pooled => o \in O)
  BY <1>1, <1>2, <1>3
<1>5. IsFiniteSet(Sessions!Pooled) /\ IsFiniteSet(rest) /\ IsFiniteSet(Sessions!Pooled \ O)
  BY <1>1, FS_Subset
<1>6. /\ Cardinality(Sessions!Pooled) \in Nat /\ Cardinality(rest) \in Nat
      /\ Cardinality(Sessions!Pooled \ O) \in Nat
      /\ Cardinality(rest) <= Cardinality(Sessions!Pooled)
  BY <1>5, FS_CardinalityType, FS_Subset
<1>7. ASSUME Cardinality(Sessions!Pooled) <= MaxSessions
      PROVE  Cardinality(Sessions!Pooled \ O) + 1 <= MaxSessions
  <2>1. CASE Cardinality(rest) >= MaxSessions
    <3>1. rest # {}
      BY <1>5, <2>1, FS_EmptySet
    <3>2. PICK p \in least : TRUE
      BY <1>1, <3>1, LeastThere
    <3>3. p \in rest /\ Sessions!Pooled \ O \subseteq rest \ {p}
      BY <1>2, <1>3, <2>1, <3>2
    <3>4. /\ IsFiniteSet(rest \ {p}) /\ Cardinality(rest \ {p}) = Cardinality(rest) - 1
      BY <1>5, <3>3, FS_RemoveElement
    <3>5. Cardinality(Sessions!Pooled \ O) <= Cardinality(rest \ {p})
      BY <3>3, <3>4, FS_Subset
    <3>. HIDE DEF rest, O
    <3>. QED  BY <1>6, <1>7, <3>4, <3>5
  <2>2. CASE ~(Cardinality(rest) >= MaxSessions)
    <3>1. Sessions!Pooled \ O = rest
      BY <1>3, <2>2
    <3>. HIDE DEF rest, O
    <3>. QED  BY <1>6, <2>2, <3>1
  <2>. QED  BY <2>1, <2>2
<1>. QED  BY <1>4, <1>7

\* A creation begins: room is made, and the request leads it on a session of its own.
LEMMA CreationBegins ==
  ASSUME SessionInv, NEW r \in Requests, NEW o \in Origins, req[r].at = "idle", Sessions!Create(r, o)
  PROVE  SessionInv'
<1>. USE GatesAssumption
<1>. DEFINE O    == Sessions!MakeRoom(o)
            gone == {pool[p] : p \in O}
<1>1. /\ Sessions!TypeOK /\ BooksTrue /\ CreationsTrue
      /\ Sessions!NobodyForgotten /\ Sessions!OneSession /\ NoneWhileMade
      /\ None \notin Names /\ None # r
      /\ pool \in [Origins -> Names \cup {None}] /\ creating \in [Origins -> Requests \cup {None}]
      /\ ses \in [Names -> SessionStates] /\ req \in [Requests -> RequestStates]
      /\ strayed \in BOOLEAN /\ crowded \in BOOLEAN
  BY DEF SessionInv, Sessions!TypeOK, SessionStates, RequestStates
<1>2. /\ O \subseteq Origins /\ (o \in Sessions!Pooled => o \in O)
      /\ Cardinality(Sessions!Pooled) <= MaxSessions => Cardinality(Sessions!Pooled \ O) + 1 <= MaxSessions
  BY RoomMade
<1>3. PICK n \in Names :
        /\ Sessions!Unused(n)
        /\ Sessions!SetBooks(Sessions!Marked(Sessions!Evicted(O), o, r))
        /\ ses' = [Sessions!Destroyed(gone) EXCEPT
                     ![n] = [state |-> "connecting", origin |-> o, aged |-> FALSE]]
        /\ req' = [req EXCEPT ![r] = [Sessions!Standing("leading") EXCEPT !.origin = o, !.on = n]]
        /\ strayed' = (strayed \/ \E p \in O : creating[p] # None)
  BY DEF Sessions!Create
<1>4. creating[o] = None /\ crowded' = (crowded \/ Sessions!Leading # {}) /\ pinged' = pinged
  BY DEF Sessions!Create
<1>. HIDE DEF O
<1>5. /\ pool' = Sessions!Evicted(O).pool /\ usage' = Sessions!Evicted(O).usage
      /\ timers' = Sessions!Evicted(O).timers
      /\ creating' = [Sessions!Evicted(O).creating EXCEPT ![o] = r]
  BY <1>3 DEF Sessions!SetBooks, Sessions!Marked, Sessions!Evicted
<1>6. /\ pool' = [p \in Origins |-> IF p \in O THEN None ELSE pool[p]]
      /\ \A p \in Origins : creating'[p] = IF p = o THEN r ELSE IF p \in O THEN None ELSE creating[p]
      /\ creating' \in [Origins -> Requests \cup {None}] /\ timers' \subseteq Origins
  BY <1>1, <1>5 DEF Sessions!Evicted, Sessions!TypeOK
<1>7. BooksTrue' /\ Sessions!Pooled' = Sessions!Pooled \ O
  BY <1>1, <1>2, <1>5, EvictedTrue
<1>8. /\ ses' \in [Names -> SessionStates]
      /\ ses'[n] = [state |-> "connecting", origin |-> o, aged |-> FALSE]
      /\ \A t \in Names : t # n =>
           /\ ses'[t] # ses[t] => ses'[t].state = "dead" /\ ses[t].state = "live"
           /\ t \in pinged => ses'[t].origin = ses[t].origin
           /\ t \in gone => ses'[t].state # "live"
  <2>. DEFINE v == [state |-> "connecting", origin |-> o, aged |-> FALSE]
              d == Sessions!Destroyed(gone)
  <2>1. \A t \in Names : d[t] = IF t \in gone /\ ses[t].state = "live"
                                  THEN Sessions!Dead(t, pinged) ELSE ses[t]
    BY DEF Sessions!Destroyed
  <2>2. d \in [Names -> SessionStates]
    <3>1. \A t \in Names : d[t] \in SessionStates
      BY <1>1, <2>1, StatesMade, ZenonT(30)
    <3>2. d = [t \in Names |-> d[t]]
      BY DEF Sessions!Destroyed
    <3>. HIDE DEF d
    <3>. QED  BY <3>1, <3>2
  <2>3. v \in SessionStates
    BY DEF SessionStates
  <2>. HIDE DEF v, d, gone
  <2>4. ses' \in [Names -> SessionStates] /\ ses'[n] = v /\ \A t \in Names : t # n => ses'[t] = d[t]
    BY <1>3, <2>2, <2>3 DEF v, d
  <2>5. ASSUME NEW t \in Names, t # n
        PROVE  /\ ses'[t] # ses[t] => ses'[t].state = "dead" /\ ses[t].state = "live"
               /\ t \in pinged => ses'[t].origin = ses[t].origin
               /\ t \in gone => ses'[t].state # "live"
    <3>1. CASE t \in gone /\ ses[t].state = "live"
      <4>1. ses'[t] = Sessions!Dead(t, pinged)
        BY <2>1, <2>4, <2>5, <3>1
      <4>2. ses'[t].state = "dead" /\ (t \in pinged => ses'[t].origin = ses[t].origin)
        BY <1>1, <4>1, StatesMade
      <4>. QED  BY <3>1, <4>2
    <3>2. CASE ~(t \in gone /\ ses[t].state = "live")
      <4>1. ses'[t] = ses[t]
        BY <2>1, <2>4, <2>5, <3>2
      <4>. QED  BY <3>2, <4>1
    <3>. QED  BY <3>1, <3>2
  <2>. QED  BY <2>4, <2>5 DEF v
<1>9. /\ req' \in [Requests -> RequestStates] /\ \A q \in Requests : q # r => req'[q] = req[q]
      /\ req'[r].at = "leading" /\ req'[r].origin = o /\ req'[r].on = n
  <2>. DEFINE v == [Sessions!Standing("leading") EXCEPT !.origin = o, !.on = n]
  <2>1. v \in RequestStates /\ v.at = "leading" /\ v.origin = o /\ v.on = n
    BY DEF Sessions!Standing, RequestStates
  <2>. HIDE DEF v
  <2>. QED  BY <1>1, <1>3, <2>1 DEF v
<1>10. Sessions!Leading' = Sessions!Leading \cup {r} /\ r \notin Sessions!Leading
       /\ \A q \in Sessions!Leading : req'[q] = req[q]
  BY <1>9 DEF Sessions!Leading
<1>11. /\ ses[n].state = "dead" /\ n \notin pinged /\ \A p \in Origins : pool[p] # n
       /\ \A q \in Requests : req[q].on # n
  BY <1>3 DEF Sessions!Unused
<1>12. Sessions!TypeOK'
  <2>1. strayed' \in BOOLEAN /\ crowded' \in BOOLEAN
    BY <1>1, <1>3, <1>4
  <2>2. pool' \in [Origins -> Names \cup {None}]
    BY <1>1, <1>6
  <2>3. usage' \subseteq Origins \X Origins /\ pinged' \subseteq Names
    BY <1>1, <1>4, <1>7 DEF BooksTrue, Sessions!TypeOK
  <2>. QED  BY <1>6, <1>8, <1>9, <2>1, <2>2, <2>3 DEF Sessions!TypeOK, SessionStates, RequestStates
<1>. HIDE DEF gone
<1>13. CreationsTrue'
  <2>1. \A p \in Origins : creating'[p] # None =>
          creating'[p] \in Sessions!Leading' /\ req'[creating'[p]].origin = p
    BY <1>1, <1>6, <1>9, <1>10 DEF CreationsTrue
  <2>2. \A q \in Sessions!Leading' :
          /\ req'[q].origin \in Origins /\ req'[q].on \in Names
          /\ ses'[req'[q].on].state = "connecting" /\ ses'[req'[q].on].origin = req'[q].origin
    <3>1. ASSUME NEW q \in Sessions!Leading
          PROVE  /\ req'[q].origin \in Origins /\ req'[q].on \in Names
                 /\ ses'[req'[q].on].state = "connecting" /\ ses'[req'[q].on].origin = req'[q].origin
      <4>1. /\ req'[q] = req[q] /\ req[q].origin \in Origins /\ req[q].on \in Names
            /\ ses[req[q].on].state = "connecting" /\ ses[req[q].on].origin = req[q].origin
        BY <1>1, <1>10 DEF CreationsTrue
      <4>2. ses'[req[q].on] = ses[req[q].on]
        BY <1>8, <1>11, <4>1
      <4>. QED  BY <4>1, <4>2
    <3>. QED  BY <1>8, <1>9, <1>10, <3>1
  <2>3. \A q, u \in Sessions!Leading' : req'[q].on = req'[u].on => q = u
    BY <1>1, <1>9, <1>10, <1>11 DEF CreationsTrue, Sessions!Leading
  <2>4. \A t \in Names : ses'[t].state = "connecting" => t \notin pinged' /\ \A p \in Origins : pool'[p] # t
    BY <1>1, <1>4, <1>6, <1>8, <1>11 DEF CreationsTrue
  <2>5. \A t \in Names : ses'[t].state # "dead" \/ t \in pinged' => ses'[t].origin \in Origins
    BY <1>1, <1>4, <1>8, <1>11 DEF CreationsTrue
  <2>. QED  BY <2>1, <2>2, <2>3, <2>4, <2>5 DEF CreationsTrue
<1>14. Sessions!NobodyForgotten'
  BY <1>1, <1>9, <1>10 DEF Sessions!NobodyForgotten
<1>15. Sessions!OneSession' /\ NoneWhileMade'
  <2>. SUFFICES ASSUME ~strayed' PROVE Sessions!OneSession' /\ NoneWhileMade'
    BY DEF Sessions!OneSession, NoneWhileMade
  <2>1. ~strayed /\ \A p \in O : creating[p] = None
    BY <1>3
  <2>2. \A q \in Sessions!Leading' : creating'[req'[q].origin] = q
    <3>1. ASSUME NEW q \in Sessions!Leading PROVE creating'[req'[q].origin] = q
      <4>1. req'[q] = req[q] /\ req[q].origin \in Origins /\ creating[req[q].origin] = q /\ q # None
        BY <1>1, <1>10, <2>1 DEF CreationsTrue, Sessions!OneSession, Sessions!Leading
      <4>2. req[q].origin # o /\ req[q].origin \notin O
        BY <1>4, <2>1, <4>1
      <4>. QED  BY <1>6, <4>1, <4>2
    <3>. QED  BY <1>6, <1>9, <1>10, <3>1
  <2>3. \A t \in Names : ses'[t].state = "live" => pool'[ses'[t].origin] = t
    <3>. SUFFICES ASSUME NEW t \in Names, ses'[t].state = "live" PROVE pool'[ses'[t].origin] = t
      OBVIOUS
    <3>1. t # n /\ ses'[t] = ses[t] /\ t \notin gone
      BY <1>8
    <3>2. pool[ses[t].origin] = t /\ ses[t].origin \in Origins
      BY <1>1, <2>1, <3>1 DEF Sessions!OneSession, CreationsTrue
    <3>3. ses[t].origin \notin O
      BY <3>1, <3>2 DEF gone
    <3>. QED  BY <1>6, <3>1, <3>2, <3>3
  <2>4. ~crowded' => Sessions!Cardinality(Sessions!Pooled)' + Sessions!Cardinality(Sessions!Leading)'
                       <= MaxSessions
    <3>. SUFFICES ASSUME ~crowded'
                  PROVE  Sessions!Cardinality(Sessions!Pooled)' + Sessions!Cardinality(Sessions!Leading)'
                           <= MaxSessions
      OBVIOUS
    <3>1. ~crowded /\ Sessions!Leading = {} /\ Sessions!Leading' = {r}
      BY <1>4, <1>10
    <3>. DEFINE c == Cardinality(Sessions!Pooled)
                d == Cardinality(Sessions!Leading)
    <3>2. c + d <= MaxSessions
      BY <1>1, <2>1, <3>1, SameCount DEF Sessions!OneSession
    <3>3. d = 0 /\ d' = 1
      BY <3>1, FS_EmptySet, FS_Singleton
    <3>4. c' = Cardinality(Sessions!Pooled \ O)
      BY <1>7
    <3>5. c \in Nat /\ c' \in Nat
      <4>1. IsFiniteSet(Sessions!Pooled) /\ IsFiniteSet(Sessions!Pooled \ O)
        BY FS_Subset DEF Sessions!Pooled
      <4>. QED  BY <3>4, <4>1, FS_CardinalityType
    <3>6. c <= MaxSessions => c' + 1 <= MaxSessions
      BY <1>2, <3>4
    <3>. HIDE DEF c, d
    <3>7. c <= MaxSessions
      BY <3>2, <3>3, <3>5
    <3>8. c' + d' <= MaxSessions
      BY <3>3, <3>6, <3>7
    <3>. QED  BY <3>8, SameCount DEF c, d
  <2>5. \A p \in Origins : creating'[p] # None => pool'[p] = None
    BY <1>1, <1>2, <1>6, <2>1 DEF NoneWhileMade, Sessions!Pooled
  <2>. QED  BY <2>2, <2>3, <2>4, <2>5 DEF Sessions!OneSession, NoneWhileMade
<1>. QED  BY <1>7, <1>12, <1>13, <1>14, <1>15 DEF SessionInv

LEMMA SessionKept == Spec => []SessionInv
<1>1. SessionInv /\ [Next]_gatesVars => SessionInv'
  <2>. SUFFICES ASSUME SessionInv, [Next]_gatesVars PROVE SessionInv'
    OBVIOUS
  <2>1. CASE Sessions!Next
    <3>1. ASSUME NEW r \in Requests, NEW o \in Origins, Sessions!Send(r, o) PROVE SessionInv'
      BY <3>1, FollowersStep, CreationBegins DEF Sessions!Send
    <3>2. ASSUME NEW r \in Requests, Sessions!Connected(r) \/ Sessions!ConnectFails(r) PROVE SessionInv'
      BY <3>2, CreationEnds DEF Sessions!Connected, Sessions!ConnectFails
    <3>3. ASSUME NEW r \in Requests, Sessions!Answered(r) PROVE SessionInv'
      BY <3>3, FollowersStep
    <3>. QED  BY <2>1, <3>1, <3>2, <3>3, SessionEvents DEF Sessions!Next
  <2>2. CASE UNCHANGED sessionVars
    <3>1. BooksTrue'
      BY <2>2, BooksStay DEF sessionVars, SessionInv
    <3>2. Sessions!Leading' = Sessions!Leading /\ Sessions!Pooled' = Sessions!Pooled
      BY <2>2 DEF sessionVars, Sessions!Leading, Sessions!Pooled
    <3>. QED
      BY <2>2, <3>1, <3>2
      DEF sessionVars, SessionInv, Sessions!TypeOK, CreationsTrue, Sessions!NobodyForgotten,
          Sessions!OneSession, NoneWhileMade
  <2>. QED  BY <2>1, <2>2, PartsMove DEF OnlyOf
<1>. QED  BY <1>1, SessionInit, PTL DEF Spec

----------------------------------------------------------------------------
(* The streams of one request over HTTP/2.                                 *)

\* Where send() stands tells what is armed and which stream there is; each hop, and the
\* fall back, has a server act at most once, and a body that is read once is read by then.
HopTrue ==
  /\ place = "session" => stream = "none" /\ streamTimer = "off" /\ ~http1Only /\ acted <= hop
  /\ place \in {"waiting", "draining"} => ~http1Only /\ acted <= hop + 1
  /\ place = "draining" => streamTimer = "off"
  /\ place = "http1" => streamTimer = "off" /\ http1Only /\ acted <= hop + 1
                        /\ (ask.body = "stream" => acted = 0)
  /\ place \in {"http1", "fetching"} => http1Only /\ stream \in {"none", "dead"}
  /\ listening => place \in {"waiting", "fetching"}
  /\ hop < MaxHops
  /\ ask.body = "stream" => acted <= IF taken THEN 1 ELSE 0

HopInv == Streams!TypeOK /\ Streams!NothingArmed /\ Streams!BodyOnce /\ HopTrue

LEMMA HopInit == Init => HopInv
<1>. SUFFICES ASSUME Streams!Init PROVE HopInv
  BY DEF Init
<1>. USE GatesAssumption DEF Streams!Init, Streams!Asks
<1>1. Streams!TypeOK
  <2>1. hop \in 0..MaxHops /\ acted \in 0..MaxHops + 1
    OBVIOUS
  <2>. QED  BY <2>1 DEF Streams!TypeOK
<1>2. Streams!NothingArmed /\ Streams!BodyOnce /\ HopTrue
  BY DEF Streams!NothingArmed, Streams!BodyOnce, HopTrue
<1>. QED  BY <1>1, <1>2 DEF HopInv

\* send() ends, or sends the request once more by HTTP/1.1.
LEMMA FallbackKept ==
  ASSUME HopInv, NEW why \in {"EABORT", "ENETWORK"}, NEW h2 \in BOOLEAN, Streams!Fallback(why, h2),
         UNCHANGED <<ask, hop, kept, cancelled, taken, acted>>,
         place \in {"session", "waiting"}, streamTimer' = "off", listening' = FALSE,
         stream' \in {"none", "dead"}
  PROVE  HopInv'
<1>. USE GatesAssumption
<1>1. Streams!TypeOK /\ Streams!BodyOnce /\ HopTrue /\ acted \in Nat /\ hop \in Nat
  BY DEF HopInv, Streams!TypeOK
<1>2. Streams!TypeOK'
  BY <1>1 DEF Streams!TypeOK, Streams!Fallback, Streams!End
<1>3. Streams!NothingArmed'
  BY DEF Streams!NothingArmed, Streams!Fallback, Streams!End
<1>4. Streams!BodyOnce' /\ HopTrue'
  BY <1>1 DEF Streams!BodyOnce, HopTrue, Streams!Fallback, Streams!End
<1>. QED  BY <1>2, <1>3, <1>4 DEF HopInv

LEMMA HopNext == ASSUME HopInv, Streams!Next PROVE HopInv'
<1>. USE GatesAssumption DEF Streams!End, Streams!Timers
<1>1. /\ Streams!TypeOK /\ Streams!NothingArmed /\ Streams!BodyOnce /\ HopTrue
      /\ acted \in 0..MaxHops + 1 /\ hop \in 0..MaxHops /\ ask \in Streams!Asks
  BY DEF HopInv, Streams!TypeOK
<1>2. ASSUME NEW h2 \in BOOLEAN, Streams!SessionFails(h2) PROVE HopInv'
  <2>1. stream = "none" /\ streamTimer = "off" /\ ~listening /\ listening \in BOOLEAN
    BY <1>1, <1>2 DEF Streams!SessionFails, HopTrue, Streams!TypeOK
  <2>. QED  BY <1>2, <2>1, FallbackKept DEF Streams!SessionFails
<1>3. ASSUME NEW h2 \in BOOLEAN, Streams!StreamFails(h2) PROVE HopInv'
  BY <1>3, FallbackKept DEF Streams!StreamFails
<1>4. ASSUME NEW redirects \in BOOLEAN, Streams!Respond(redirects) PROVE HopInv'
  <2>1. /\ place = "waiting" /\ stream = "open" /\ streamTimer' = "off" /\ listening' = FALSE
        /\ UNCHANGED <<ask, hop, kept, cancelled, taken, http1Only, acted>>
        /\ \/ stream' = "dead" /\ place' = "ended" /\ result' \in {"EABORT", "ENETWORK"}
           \/ place' = "draining" /\ UNCHANGED <<stream, result>>
           \/ UNCHANGED stream /\ place' = "ended" /\ result' = "response"
    BY <1>4 DEF Streams!Respond
  <2>2. Streams!TypeOK'
    BY <1>1, <2>1 DEF Streams!TypeOK
  <2>. QED  BY <1>1, <2>1, <2>2 DEF Streams!NothingArmed, Streams!BodyOnce, HopTrue, HopInv
<1>5. CASE Streams!OpenStream
  <2>1. /\ place = "session" /\ place' = "waiting" /\ stream' \in {"open", "broken"}
        /\ streamTimer' = "set" /\ listening' \in BOOLEAN /\ taken' \in BOOLEAN
        /\ (taken => taken')
        /\ UNCHANGED <<ask, hop, kept, cancelled, http1Only, result>>
    BY <1>1, <1>5 DEF Streams!OpenStream, Streams!TypeOK, Streams!Asks, Streams!Sends
  <2>2. /\ acted' \in {acted, acted + 1}
        /\ ask.body = "stream" /\ acted' # acted => ~taken /\ taken'
    BY <1>1, <1>5 DEF Streams!OpenStream, Streams!Acted, Streams!Sends, Streams!TypeOK
  <2>3. acted <= hop /\ hop < MaxHops /\ ~http1Only
    BY <1>1, <2>1 DEF HopTrue
  <2>4. Streams!TypeOK'
    BY <1>1, <2>1, <2>2, <2>3 DEF Streams!TypeOK
  <2>5. ask.body = "stream" => acted' <= IF taken' THEN 1 ELSE 0
    BY <1>1, <2>1, <2>2 DEF HopTrue
  <2>6. Streams!NothingArmed'
    BY <2>1 DEF Streams!NothingArmed
  <2>7. Streams!BodyOnce'
    BY <1>1, <2>1, <2>2, <2>3, <2>5 DEF Streams!BodyOnce
  <2>8. HopTrue'
    BY <1>1, <2>1, <2>2, <2>3, <2>5 DEF HopTrue
  <2>. QED  BY <2>4, <2>6, <2>7, <2>8 DEF HopInv
<1>6. CASE Streams!StreamCloses
  <2>1. Streams!TypeOK'
    BY <1>1, <1>6 DEF Streams!StreamCloses, Streams!TypeOK
  <2>. QED  BY <1>1, <1>6, <2>1 DEF Streams!StreamCloses, Streams!NothingArmed, Streams!BodyOnce,
                                    HopTrue, HopInv
<1>7. CASE Streams!TimeOut
  <2>1. Streams!TypeOK'
    BY <1>1, <1>7 DEF Streams!TimeOut, Streams!TypeOK
  <2>. QED  BY <1>1, <1>7, <2>1 DEF Streams!TimeOut, Streams!NothingArmed, Streams!BodyOnce,
                                    HopTrue, HopInv
<1>8. CASE Streams!Abort
  <2>1. CASE listening
    <3>1. Streams!TypeOK'
      BY <1>1, <1>8, <2>1 DEF Streams!Abort, Streams!Late, Streams!TypeOK
    <3>2. Streams!NothingArmed'
      BY <1>1, <1>8, <2>1 DEF Streams!Abort, Streams!NothingArmed, HopTrue
    <3>. QED  BY <1>1, <1>8, <2>1, <3>1, <3>2 DEF Streams!Abort, Streams!BodyOnce, HopTrue, HopInv
  <2>2. CASE ~listening
    <3>1. Streams!TypeOK'
      BY <1>1, <1>8, <2>2 DEF Streams!Abort, Streams!TypeOK
    <3>. QED  BY <1>1, <1>8, <2>2, <3>1
              DEF Streams!Abort, Streams!NothingArmed, Streams!BodyOnce, HopTrue, HopInv
  <2>. QED  BY <2>1, <2>2
<1>9. ASSUME NEW target, NEW sent, Streams!Drained(target, sent), sent \in BOOLEAN PROVE HopInv'
  <2>1. /\ place = "draining" /\ stream' = "none"
        /\ UNCHANGED <<ask, streamTimer, listening, cancelled, taken, http1Only, acted>>
        /\ \/ place' = "ended" /\ result' \in {"EVALIDATION", "ENETWORK"} /\ UNCHANGED <<hop, kept>>
           \/ /\ place' = "session" /\ hop' = hop + 1 /\ hop + 1 # MaxHops
              /\ kept' = (kept /\ sent) /\ UNCHANGED result
    BY <1>9 DEF Streams!Drained
  <2>2. streamTimer = "off" /\ ~listening /\ ~http1Only /\ acted <= hop + 1 /\ hop < MaxHops
    BY <1>1, <2>1 DEF HopTrue
  <2>3. hop' \in 0..MaxHops /\ hop' < MaxHops /\ hop' >= hop
    BY <1>1, <2>1, <2>2
  <2>4. Streams!TypeOK'
    BY <1>1, <2>1, <2>3, <1>9 DEF Streams!TypeOK
  <2>5. Streams!NothingArmed'
    BY <2>1, <2>2 DEF Streams!NothingArmed
  <2>6. Streams!BodyOnce' /\ HopTrue'
    BY <1>1, <2>1, <2>2, <2>3 DEF Streams!BodyOnce, HopTrue
  <2>. QED  BY <2>4, <2>5, <2>6 DEF HopInv
<1>10. CASE Streams!Fetch
  <2>1. place = "http1" /\ streamTimer = "off" /\ ~listening /\ http1Only /\ stream \in {"none", "dead"}
        /\ acted <= hop + 1 /\ (ask.body = "stream" => acted = 0) /\ hop < MaxHops
    BY <1>1, <1>10 DEF Streams!Fetch, HopTrue
  <2>2. CASE ask.signal /\ cancelled
    <3>1. Streams!TypeOK'
      BY <1>1, <1>10, <2>2 DEF Streams!Fetch, Streams!TypeOK
    <3>. QED  BY <1>1, <1>10, <2>1, <2>2, <3>1
              DEF Streams!Fetch, Streams!NothingArmed, Streams!BodyOnce, HopTrue, HopInv
  <2>3. CASE ~(ask.signal /\ cancelled)
    <3>1. /\ place' = "fetching" /\ streamTimer' = "set" /\ listening' = ask.signal
          /\ taken' = (taken \/ ask.body # "none") /\ acted' = acted + 1
          /\ UNCHANGED <<ask, hop, kept, stream, cancelled, http1Only, result>>
      BY <1>10, <2>3 DEF Streams!Fetch
    <3>2. listening' \in BOOLEAN /\ taken' \in BOOLEAN
      BY <1>1, <3>1 DEF Streams!Asks, Streams!TypeOK
    <3>3. acted' \in 0..MaxHops + 1 /\ acted' <= hop + 2
      BY <1>1, <2>1, <3>1
    <3>4. Streams!TypeOK'
      BY <1>1, <3>1, <3>2, <3>3 DEF Streams!TypeOK
    <3>5. ask.body = "stream" => taken' /\ acted' <= 1
      <4>1. taken' <=> taken \/ ask.body # "none"
        BY <3>1
      <4>2. ask.body = "stream" => acted' <= 1
        BY <2>1, <3>1
      <4>. QED  BY <4>1, <4>2
    <3>6. Streams!NothingArmed'
      BY <3>1 DEF Streams!NothingArmed
    <3>7. Streams!BodyOnce' /\ HopTrue'
      BY <1>1, <2>1, <3>1, <3>3, <3>5 DEF Streams!BodyOnce, HopTrue
    <3>. QED  BY <3>4, <3>6, <3>7 DEF HopInv
  <2>. QED  BY <2>2, <2>3
<1>11. ASSUME NEW why \in {"response", "ENETWORK"}, Streams!FetchSettles(why) PROVE HopInv'
  <2>1. Streams!TypeOK'
    BY <1>1, <1>11 DEF Streams!FetchSettles, Streams!Late, Streams!TypeOK
  <2>. QED  BY <1>1, <1>11, <2>1 DEF Streams!FetchSettles, Streams!Late, Streams!NothingArmed,
                                     Streams!BodyOnce, HopTrue, HopInv
<1>12. CASE Streams!FetchTimer
  <2>1. Streams!TypeOK'
    BY <1>1, <1>12 DEF Streams!FetchTimer, Streams!TypeOK
  <2>. QED  BY <1>1, <1>12, <2>1 DEF Streams!FetchTimer, Streams!NothingArmed, Streams!BodyOnce,
                                     HopTrue, HopInv
<1>. QED
  BY <1>2, <1>3, <1>4, <1>5, <1>6, <1>7, <1>8, <1>9, <1>10, <1>11, <1>12 DEF Streams!Next

LEMMA HopKept == Spec => []HopInv
<1>1. HopInv /\ [Next]_gatesVars => HopInv'
  <2>. SUFFICES ASSUME HopInv, [Next]_gatesVars PROVE HopInv'
    OBVIOUS
  <2>1. CASE UNCHANGED streamVars
    BY <2>1 DEF streamVars, HopInv, Streams!TypeOK, Streams!NothingArmed, Streams!BodyOnce, HopTrue
  <2>. QED  BY <2>1, PartsMove, HopNext DEF OnlyOf
<1>. QED  BY <1>1, HopInit, PTL DEF Spec

----------------------------------------------------------------------------
(* A connection through a proxy.                                           *)

\* Where an attempt stands tells whether it has a connection, which proxy it goes through,
\* and whether anything may still call back; every attempt dials once.
AttemptTrue ==
  /\ stage = "dialling" => sock = "none"
  /\ stage \in {"greeting", "authing", "asking", "head", "handshake"} => sock = "open"
  /\ stage = "backoff" => sock # "open" /\ dial < MaxRedials
  /\ stage \in {"greeting", "authing", "asking", "backoff"} => Proxied!Socks
  /\ stage \in {"head", "handshake"} => ~Proxied!Socks
  /\ stage \in {"backoff", "ended"} => armed = {}
  /\ stage # "ended" => handed = None
  /\ stage = "handshake" => granted
  /\ granted => stage \in {"handshake", "ended"}
  /\ ~Proxied!Socks => late = 0
  /\ opened + late <= dial + (IF stage = "dialling" THEN 0 ELSE 1)

TunnelInv ==
  Proxied!TypeOK /\ Proxied!ConnectionsAccounted /\ Proxied!TunnelHonest /\ AttemptTrue

LEMMA TunnelInit == Init => TunnelInv
<1>. SUFFICES ASSUME Proxied!Init PROVE TunnelInv
  BY DEF Init
<1>. USE GatesAssumption DEF Proxied!Init, Proxied!Registered, Proxied!Setups, Proxied!Socks
<1>1. Proxied!TypeOK
  <2>1. setup \in Proxied!Setups /\ armed \subseteq {"timer", "signal"}
    OBVIOUS
  <2>2. dial \in 0..MaxRedials /\ 0 \in 0..MaxRedials + 1
    OBVIOUS
  <2>. QED  BY <2>1, <2>2 DEF Proxied!TypeOK
<1>2. Proxied!ConnectionsAccounted /\ Proxied!TunnelHonest /\ AttemptTrue
  BY DEF Proxied!ConnectionsAccounted, Proxied!TunnelHonest, AttemptTrue
<1>. QED  BY <1>1, <1>2 DEF TunnelInv

\* An attempt fails: its connection is closed, and there is another one or an error.
LEMMA FailKept ==
  ASSUME TunnelInv, NEW why \in {"refused", "unreachable", "ENETWORK", "ETIMEOUT", "EABORT"},
         NEW retriable, Proxied!Fail(why, retriable),
         stage \notin {"backoff", "ended"},
         \/ UNCHANGED <<late, leaked>>
         \/ stage = "dialling" /\ late' = late + (IF Proxied!Socks THEN 1 ELSE 0) /\ UNCHANGED leaked,
         stage = "handshake" => ~Proxied!Socks
  PROVE  TunnelInv'
<1>. USE GatesAssumption DEF Proxied!Socks, Proxied!Fail, Proxied!Closed
<1>1. Proxied!TypeOK /\ Proxied!ConnectionsAccounted /\ Proxied!TunnelHonest /\ AttemptTrue
  BY DEF TunnelInv
<1>2. /\ dial \in 0..MaxRedials /\ late \in Nat /\ leaked \in Nat /\ opened \in Nat /\ shut \in Nat
      /\ late' \in Nat /\ leaked' = leaked /\ opened' = opened /\ dial' = dial /\ setup' = setup
      /\ sock \in {"none", "open", "closed"}
  BY <1>1 DEF Proxied!TypeOK
<1>3. shut' \in Nat /\ opened' = shut' + leaked' + (IF sock' = "open" THEN 1 ELSE 0) /\ sock' # "open"
      /\ sock' \in {"none", "closed"} /\ armed' = {}
  BY <1>1, <1>2 DEF Proxied!ConnectionsAccounted
<1>4. opened + late' <= dial + 1 /\ (~Proxied!Socks => late' = 0)
  BY <1>1, <1>2 DEF AttemptTrue
<1>5. stage' \in {"backoff", "ended"} /\ (stage' = "backoff" => Proxied!Socks /\ dial < MaxRedials)
      /\ handed' \in {None, why} /\ (stage' = "backoff" => handed' = None)
      /\ granted' = granted /\ early' = early
  BY <1>1 DEF AttemptTrue
<1>6. Proxied!TypeOK'
  <2>1. opened \in 0..MaxRedials + 1 /\ late' \in 0..MaxRedials + 1
    BY <1>2, <1>4
  <2>2. shut' \in 0..MaxRedials + 1 /\ leaked \in 0..MaxRedials + 1
    BY <1>2, <1>3, <2>1
  <2>. QED  BY <1>1, <1>2, <1>3, <1>5, <2>1, <2>2 DEF Proxied!TypeOK
<1>7. Proxied!ConnectionsAccounted'
  BY <1>1, <1>2, <1>3, <1>5 DEF Proxied!ConnectionsAccounted
<1>8. Proxied!TunnelHonest'
  BY <1>1, <1>2, <1>3, <1>5 DEF Proxied!TunnelHonest
<1>9. AttemptTrue'
  <2>1. granted' => stage' = "ended"
    BY <1>1, <1>5 DEF AttemptTrue
  <2>2. opened' + late' <= dial' + (IF stage' = "dialling" THEN 0 ELSE 1)
    BY <1>2, <1>4, <1>5
  <2>. QED  BY <1>2, <1>3, <1>4, <1>5, <2>1, <2>2 DEF AttemptTrue
<1>. QED  BY <1>6, <1>7, <1>8, <1>9 DEF TunnelInv

LEMMA TunnelNext == ASSUME TunnelInv, Proxied!Next PROVE TunnelInv'
<1>. USE GatesAssumption DEF Proxied!Socks, Proxied!Registered, Proxied!Stage
<1>1. Proxied!TypeOK /\ Proxied!ConnectionsAccounted /\ Proxied!TunnelHonest /\ AttemptTrue
  BY DEF TunnelInv
<1>2. /\ dial \in 0..MaxRedials /\ late \in Nat /\ leaked \in Nat /\ opened \in Nat /\ shut \in Nat
      /\ sock \in {"none", "open", "closed"} /\ armed \subseteq {"timer", "signal"}
  BY <1>1 DEF Proxied!TypeOK
<1>3. \A s \in {"asking", "authing"} : Proxied!Goes(s) /\ Proxied!Socks /\ stage \in {"greeting", "authing"}
                                       => TunnelInv'
  <2>. SUFFICES ASSUME NEW s \in {"asking", "authing"}, Proxied!Goes(s), Proxied!Socks,
                       stage \in {"greeting", "authing"}
                PROVE  TunnelInv'
    OBVIOUS
  <2>1. Proxied!TypeOK'
    BY <1>1 DEF Proxied!TypeOK, Proxied!Goes
  <2>. QED  BY <1>1, <1>2, <2>1 DEF Proxied!ConnectionsAccounted, Proxied!TunnelHonest, AttemptTrue,
                                    TunnelInv, Proxied!Goes
<1>4. CASE Proxied!BackoffEnds
  <2>1. Proxied!TypeOK'
    BY <1>1, <1>2, <1>4 DEF Proxied!TypeOK, Proxied!BackoffEnds, AttemptTrue
  <2>. QED  BY <1>1, <1>2, <1>4, <2>1 DEF Proxied!BackoffEnds, Proxied!ConnectionsAccounted,
                                          Proxied!TunnelHonest, AttemptTrue, TunnelInv
<1>5. CASE Proxied!DialSucceeds
  <2>1. Proxied!TypeOK'
    BY <1>1, <1>2, <1>5 DEF Proxied!TypeOK, Proxied!DialSucceeds, AttemptTrue
  <2>2. Proxied!ConnectionsAccounted' /\ Proxied!TunnelHonest'
    BY <1>1, <1>2, <1>5 DEF Proxied!DialSucceeds, Proxied!ConnectionsAccounted,
                            Proxied!TunnelHonest, AttemptTrue
  <2>. QED  BY <1>1, <1>2, <1>5, <2>1, <2>2 DEF Proxied!DialSucceeds, AttemptTrue, TunnelInv
<1>6. CASE Proxied!DialTimesOut
  BY <1>6, FailKept DEF Proxied!DialTimesOut
<1>7. CASE Proxied!TlsDone
  <2>1. Proxied!TypeOK'
    BY <1>1, <1>2, <1>7 DEF Proxied!TypeOK, Proxied!TlsDone, Proxied!Handed
  <2>. QED  BY <1>1, <1>2, <1>7, <2>1 DEF Proxied!TlsDone, Proxied!Handed, Proxied!ConnectionsAccounted,
                                          Proxied!TunnelHonest, AttemptTrue, TunnelInv
<1>8. CASE Proxied!Breaks \/ Proxied!AnswerTimesOut
  <2>1. stage \in {"greeting", "authing", "asking", "head", "handshake"}
    BY <1>8 DEF Proxied!Breaks, Proxied!AnswerTimesOut, Proxied!Waiting
  <2>2. stage = "handshake" => ~Proxied!Socks
    BY <1>1 DEF AttemptTrue
  <2>. QED  BY <1>8, <2>1, <2>2, FailKept DEF Proxied!Breaks, Proxied!AnswerTimesOut
<1>9. CASE Proxied!Abort
  <2>1. stage \notin {"backoff", "ended"} /\ (stage = "handshake" => ~Proxied!Socks)
    BY <1>1, <1>9 DEF Proxied!Abort, AttemptTrue
  <2>. QED  BY <1>9, <2>1, FailKept DEF Proxied!Abort
<1>10. ASSUME NEW b \in BOOLEAN, Proxied!DialFails(b) PROVE TunnelInv'
  BY <1>10, FailKept DEF Proxied!DialFails
<1>11. ASSUME NEW b \in BOOLEAN, Proxied!LateDial(b) PROVE TunnelInv'
  <2>1. Proxied!TypeOK'
    BY <1>1, <1>2, <1>11 DEF Proxied!TypeOK, Proxied!LateDial, Proxied!ConnectionsAccounted, AttemptTrue
  <2>2. Proxied!ConnectionsAccounted' /\ Proxied!TunnelHonest'
    BY <1>1, <1>2, <1>11 DEF Proxied!LateDial, Proxied!ConnectionsAccounted,
                             Proxied!TunnelHonest, AttemptTrue
  <2>. QED  BY <1>1, <1>2, <1>11, <2>1, <2>2 DEF Proxied!LateDial, AttemptTrue, TunnelInv
<1>12. ASSUME NEW b \in BOOLEAN, Proxied!Password(b) PROVE TunnelInv'
  <2>1. Proxied!Socks /\ stage = "authing"
    BY <1>1, <1>12 DEF Proxied!Password, AttemptTrue
  <2>. QED  BY <1>3, <1>12, <2>1, FailKept DEF Proxied!Password
<1>13. ASSUME NEW m, Proxied!Method(m) PROVE TunnelInv'
  <2>1. Proxied!Socks /\ stage = "greeting"
    BY <1>1, <1>13 DEF Proxied!Method, AttemptTrue
  <2>. QED  BY <1>3, <1>13, <2>1, FailKept DEF Proxied!Method
<1>14. ASSUME NEW c, NEW b \in BOOLEAN, Proxied!Reply(c, b) PROVE TunnelInv'
  <2>1. CASE c = "succeeded"
    <3>1. Proxied!TypeOK'
      BY <1>1, <1>2, <1>14, <2>1 DEF Proxied!TypeOK, Proxied!Reply, Proxied!Handed
    <3>. QED  BY <1>1, <1>2, <1>14, <2>1, <3>1
              DEF Proxied!Reply, Proxied!Handed, Proxied!ConnectionsAccounted,
                  Proxied!TunnelHonest, AttemptTrue, TunnelInv
  <2>2. CASE c # "succeeded"
    BY <1>14, <2>2, FailKept DEF Proxied!Reply
  <2>. QED  BY <2>1, <2>2
<1>15. ASSUME NEW ok \in BOOLEAN, NEW b \in BOOLEAN, Proxied!Head(ok, b) PROVE TunnelInv'
  <2>1. CASE ok
    <3>1. Proxied!TypeOK'
      BY <1>1, <1>2, <1>15, <2>1 DEF Proxied!TypeOK, Proxied!Head, Proxied!Handed
    <3>2. CASE setup.tls
      BY <1>1, <1>2, <1>15, <2>1, <3>1, <3>2
      DEF Proxied!Head, Proxied!ConnectionsAccounted, Proxied!TunnelHonest, AttemptTrue, TunnelInv
    <3>3. CASE ~setup.tls
      BY <1>1, <1>2, <1>15, <2>1, <3>1, <3>3
      DEF Proxied!Head, Proxied!Handed, Proxied!ConnectionsAccounted, Proxied!TunnelHonest, AttemptTrue,
          TunnelInv
    <3>. QED  BY <3>2, <3>3
  <2>2. CASE ~ok
    BY <1>15, <2>2, FailKept DEF Proxied!Head
  <2>. QED  BY <2>1, <2>2
<1>. QED
  BY <1>4, <1>5, <1>6, <1>7, <1>8, <1>9, <1>10, <1>11, <1>12, <1>13, <1>14, <1>15 DEF Proxied!Next

LEMMA TunnelKept == Spec => []TunnelInv
<1>1. TunnelInv /\ [Next]_gatesVars => TunnelInv'
  <2>. SUFFICES ASSUME TunnelInv, [Next]_gatesVars PROVE TunnelInv'
    OBVIOUS
  <2>1. CASE UNCHANGED proxyVars
    BY <2>1 DEF proxyVars, TunnelInv, Proxied!TypeOK, Proxied!ConnectionsAccounted,
                Proxied!TunnelHonest, AttemptTrue, Proxied!Socks
  <2>. QED  BY <2>1, PartsMove, TunnelNext DEF OnlyOf
<1>. QED  BY <1>1, TunnelInit, PTL DEF Spec

----------------------------------------------------------------------------
(* What holds of the parts together.                                       *)

\* Whoever waits, for a session, a connection, a deduplicated answer, the token or the rate
\* limit, waits for something that is on its way, in whatever order these come.
THEOREM NobodyStrandedCorrect == Spec => []NobodyStranded
<1>1. SessionInv /\ TalkInv /\ SuiteInv /\ RateInv => NobodyStranded
  BY DEF SessionInv, TalkInv, SuiteInv, RateInv, NobodyStranded
<1>. QED  BY <1>1, SessionKept, TalkKept, SuiteKept, RateKept, PTL

\* No stream, connection, timer or listener is left behind, a body that can be read once is
\* sent once, a tunnel was granted by its proxy, and an open WebSocket is in its rooms.
THEOREM ConnectionsHonestCorrect == Spec => []ConnectionsHonest
<1>1. HopInv /\ TunnelInv /\ TalkInv => ConnectionsHonest
  BY DEF HopInv, TunnelInv, TalkInv, ConnectionsHonest
<1>. QED  BY <1>1, HopKept, TunnelKept, TalkKept, PTL

\* An origin has one session, within the limit of the pool, the books of the pool agree, and
\* no stretch of time sees more calls than the rate limit grants.
THEOREM LimitsHeldCorrect == Spec => []LimitsHeld
<1>1. SessionInv /\ RateInv => LimitsHeld
  BY DEF SessionInv, BooksTrue, RateInv, LimitsHeld
<1>. QED  BY <1>1, SessionKept, RateKept, PTL
====
