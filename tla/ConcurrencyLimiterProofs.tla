---------------------- MODULE ConcurrencyLimiterProofs ----------------------
(***************************************************************************)
(* Proofs about ConcurrencyLimiter, for any set of requests, any limit and *)
(* any queue depth.                                                        *)
(***************************************************************************)
EXTENDS ConcurrencyLimiter, FiniteSetTheorems, TLAPS

USE LimiterAssumption

\* The inductive invariant: the counter and the queue are exact, and nobody
\* waits for a permit that is free.
IInv == TypeOK /\ PermitsExact /\ QueueExact /\ WorkConserving

----------------------------------------------------------------------------
\* Facts about sequences and sets used below.

\* Removing one element of a sequence keeps the others, once each.
LEMMA SpliceFacts ==
  ASSUME NEW S, NEW s \in Seq(S), NEW i \in DOMAIN s
  PROVE  /\ Splice(s, i) \in Seq(S)
         /\ Len(Splice(s, i)) = Len(s) - 1
         /\ \A j \in 1..(Len(s) - 1) : Splice(s, i)[j] = IF j < i THEN s[j] ELSE s[j + 1]
  <1> DEFINE front == SubSeq(s, 1, i - 1)
             back  == SubSeq(s, i + 1, Len(s))
  <1>1. i \in 1..Len(s) /\ Len(s) \in Nat
    OBVIOUS
  <1>2. /\ front \in Seq(S)
        /\ Len(front) = i - 1
        /\ \A j \in 1..(i - 1) : front[j] = s[j]
    BY <1>1
  <1>3. /\ back \in Seq(S)
        /\ Len(back) = Len(s) - i
        /\ \A j \in 1..(Len(s) - i) : back[j] = s[i + j]
    BY <1>1
  <1> HIDE DEF front, back
  <1>4. /\ front \o back \in Seq(S)
        /\ Len(front \o back) = Len(s) - 1
    BY <1>1, <1>2, <1>3
  <1>5. ASSUME NEW j \in 1..(Len(s) - 1)
        PROVE  (front \o back)[j] = IF j < i THEN s[j] ELSE s[j + 1]
    <2>1. CASE j < i
      BY <2>1, <1>1, <1>2, <1>3
    <2>2. CASE ~(j < i)
      <3>1. (front \o back)[j] = back[j - (i - 1)]
        BY <2>2, <1>1, <1>2, <1>3, SMTT(20)
      <3>2. j - (i - 1) \in 1..(Len(s) - i) /\ i + (j - (i - 1)) = j + 1
        BY <2>2, <1>1
      <3> QED
        BY <3>1, <3>2, <1>3, <2>2
    <2> QED
      BY <2>1, <2>2
  <1> QED
    BY <1>4, <1>5 DEF Splice, front, back

\* The tail of a queue holds what the queue holds, its head excepted.
LEMMA TailFacts ==
  ASSUME NEW S, NEW s \in Seq(S), s # <<>>
  PROVE  /\ Tail(s) \in Seq(S)
         /\ Head(s) \in S
         /\ Head(s) = s[1]
         /\ 1 \in DOMAIN s
         /\ Len(Tail(s)) = Len(s) - 1
         /\ \A j \in 1..(Len(s) - 1) : Tail(s)[j] = s[j + 1]
  OBVIOUS

LEMMA HoldersFinite == IsFiniteSet(Holders) /\ Cardinality(Holders) \in Nat
  <1>1. Holders \subseteq Requests
    BY DEF Holders
  <1> QED
    BY <1>1, FS_Subset, FS_CardinalityType

----------------------------------------------------------------------------
\* The permit count.

\* A step that moves no request into or out of the holders, and leaves the
\* counter alone, leaves the count exact.
LEMMA SameHolders ==
  ASSUME PermitsExact, active' = active,
         \A r \in Requests : phase'[r] \in Holding <=> phase[r] \in Holding
  PROVE  PermitsExact'
  <1>1. Holders' = Holders
    BY DEF Holders
  <1> QED
    BY <1>1 DEF PermitsExact

\* One more holder, one more permit counted.
LEMMA OneMoreHolder ==
  ASSUME NEW r \in Requests, PermitsExact, phase \in [Requests -> Phases],
         phase[r] \notin Holding, active' = active + 1,
         phase' = [phase EXCEPT ![r] = "granted"]
  PROVE  PermitsExact'
  <1>1. Holders' = Holders \cup {r} /\ r \notin Holders
    BY DEF Holders, Holding
  <1>2. Cardinality(Holders \cup {r}) = Cardinality(Holders) + 1
    BY <1>1, HoldersFinite, FS_AddElement
  <1> QED
    BY <1>1, <1>2 DEF PermitsExact

\* A holder that settles: the set it leaves is one smaller, and was not empty.
LEMMA OneHolderLess ==
  ASSUME NEW r \in Holders
  PROVE  /\ IsFiniteSet(Holders \ {r})
         /\ Cardinality(Holders \ {r}) = Cardinality(Holders) - 1
         /\ Cardinality(Holders) \in Nat \ {0}
  <1>1. IsFiniteSet(Holders \ {r}) /\ Cardinality(Holders \ {r}) = Cardinality(Holders) - 1
    BY HoldersFinite, FS_RemoveElement
  <1>2. Holders # {}
    OBVIOUS
  <1> QED
    BY <1>1, <1>2, HoldersFinite, FS_EmptySet

----------------------------------------------------------------------------
\* One lemma per group of handlers.

LEMMA InitEstablishes == Init => IInv
  <1> SUFFICES ASSUME Init PROVE IInv
    OBVIOUS
  <1>1. TypeOK
    BY DEF Init, TypeOK, Phases
  <1>2. Holders = {}
    BY DEF Init, Holders, Holding
  <1>3. PermitsExact
    BY <1>2, FS_EmptySet DEF Init, PermitsExact
  <1>4. QueueExact /\ WorkConserving
    BY DEF Init, QueueExact, InQueue, WorkConserving
  <1> QED
    BY <1>1, <1>3, <1>4 DEF IInv

\* acquire, when the caller does not enter the queue.
LEMMA AcquireKeeps ==
  ASSUME IInv, NEW r \in Requests,
         AcquireAborted(r) \/ AcquireFree(r) \/ AcquireRefused(r)
  PROVE  IInv'
  <1> USE DEF IInv, TypeOK
  <1>1. TypeOK'
    BY DEF AcquireAborted, AcquireFree, AcquireRefused, PermitFree, RaisedPeak, MoveTo,
           Phases, Holding, Settled
  <1>2. PermitsExact'
    <2>1. CASE AcquireFree(r)
      BY <2>1, OneMoreHolder DEF AcquireFree, MoveTo, Holding
    <2>2. CASE AcquireAborted(r) \/ AcquireRefused(r)
      BY <2>2, SameHolders DEF AcquireAborted, AcquireRefused, MoveTo, Holding
    <2> QED
      BY <2>1, <2>2
  <1>3. QueueExact'
    BY DEF AcquireAborted, AcquireFree, AcquireRefused, MoveTo, QueueExact, InQueue
  <1>4. WorkConserving'
    BY DEF AcquireAborted, AcquireFree, AcquireRefused, PermitFree, WorkConserving
  <1> QED
    BY <1>1, <1>2, <1>3, <1>4

\* acquire, when the caller enters the queue.
LEMMA AcquireQueuedKeeps ==
  ASSUME IInv, NEW r \in Requests, AcquireQueued(r)
  PROVE  IInv'
  <1> USE DEF IInv, TypeOK, AcquireQueued, MoveTo
  <1>1. TypeOK'
    BY DEF Phases
  <1>2. PermitsExact'
    BY SameHolders DEF Holding
  <1>3. QueueExact'
    <2>1. ~InQueue(r)
      BY DEF QueueExact
    <2>2. /\ Len(waiters') = Len(waiters) + 1
          /\ \A j \in 1..Len(waiters) : waiters'[j] = waiters[j]
          /\ waiters'[Len(waiters) + 1] = r
      OBVIOUS
    <2>3. \A q \in Requests : InQueue(q)' <=> (InQueue(q) \/ q = r)
      BY <2>2 DEF InQueue
    <2>4. \A q \in Requests : phase'[q] = "waiting" <=> InQueue(q)'
      BY <2>3 DEF QueueExact
    <2>5. \A j, k \in DOMAIN waiters' : waiters'[j] = waiters'[k] => j = k
      BY <2>1, <2>2 DEF QueueExact, InQueue
    <2> QED
      BY <2>4, <2>5 DEF QueueExact
  <1>4. WorkConserving'
    BY DEF WorkConserving, PermitFree
  <1> QED
    BY <1>1, <1>2, <1>3, <1>4

\* The microtask of a grant, a signal that fires outside the queue, and the
\* caller's next request.
LEMMA CallerKeeps ==
  ASSUME IInv, NEW r \in Requests, Resume(r) \/ AbortElsewhere(r) \/ Again(r)
  PROVE  IInv'
  <1> USE DEF IInv, TypeOK, Resume, AbortElsewhere, Again, MoveTo
  <1>1. TypeOK'
    BY DEF Phases, Holding, Settled
  <1>2. PermitsExact'
    BY SameHolders DEF Holding, Settled
  <1>3. QueueExact'
    BY DEF QueueExact, InQueue, Settled
  <1>4. WorkConserving'
    BY DEF WorkConserving
  <1> QED
    BY <1>1, <1>2, <1>3, <1>4

\* release with nobody waiting.
LEMMA ReleaseUnusedKeeps ==
  ASSUME IInv, NEW r \in Requests, ReleaseUnused(r)
  PROVE  IInv'
  <1> USE DEF IInv, TypeOK, ReleaseUnused, MoveTo
  <1>1. Holders' = Holders \ {r} /\ r \in Holders
    BY DEF Holders, Holding
  <1>2. PermitsExact'
    BY <1>1, OneHolderLess DEF PermitsExact
  <1>3. TypeOK'
    BY DEF Phases, Settled
  <1>4. QueueExact' /\ WorkConserving'
    BY DEF QueueExact, InQueue, WorkConserving
  <1> QED
    BY <1>2, <1>3, <1>4

\* release with a waiter: the holder leaves and the head of the queue enters.
LEMMA ReleaseTransferKeeps ==
  ASSUME IInv, NEW r \in Requests, ReleaseTransfer(r)
  PROVE  IInv'
  <1> USE DEF IInv, TypeOK, ReleaseTransfer
  <1> DEFINE h == Head(waiters)
  <1>1. /\ Tail(waiters) \in Seq(Requests)
        /\ h \in Requests
        /\ h = waiters[1]
        /\ 1 \in DOMAIN waiters
        /\ Len(Tail(waiters)) = Len(waiters) - 1
        /\ \A j \in 1..(Len(waiters) - 1) : Tail(waiters)[j] = waiters[j + 1]
    BY TailFacts
  <1> HIDE DEF h
  <1>2. phase' = [phase EXCEPT ![r] = "done", ![h] = "granted"]
    BY DEF h
  <1>3. phase[h] = "waiting" /\ h # r
    BY <1>1 DEF QueueExact, InQueue
  <1>4. TypeOK'
    BY <1>1, <1>2 DEF Phases, Holding, Settled
  <1>5. PermitsExact'
    <2>1. r \in Holders /\ h \notin Holders
      BY <1>3 DEF Holders, Holding
    <2>2. Holders' = (Holders \ {r}) \cup {h}
      BY <1>1, <1>2, <1>3 DEF Holders, Holding
    <2>3. Cardinality((Holders \ {r}) \cup {h}) = Cardinality(Holders \ {r}) + 1
      BY <2>1, OneHolderLess, FS_AddElement
    <2> QED
      <3>1. /\ Cardinality(Holders \ {r}) = Cardinality(Holders) - 1
            /\ Cardinality(Holders) \in Nat \ {0}
        BY <2>1, OneHolderLess
      <3> QED
        BY <3>1, <2>2, <2>3 DEF PermitsExact
  <1>6. QueueExact'
    <2>1. \A j, k \in DOMAIN waiters' : waiters'[j] = waiters'[k] => j = k
      BY <1>1 DEF QueueExact
    <2>2. \A q \in Requests : InQueue(q)' <=> (InQueue(q) /\ q # h)
      <3> SUFFICES ASSUME NEW q \in Requests
                   PROVE  InQueue(q)' <=> (InQueue(q) /\ q # h)
        OBVIOUS
      <3>1. ASSUME InQueue(q)' PROVE InQueue(q) /\ q # h
        <4>1. PICK j \in 1..(Len(waiters) - 1) : waiters[j + 1] = q
          BY <3>1, <1>1 DEF InQueue
        <4> QED
          BY <4>1, <1>1 DEF InQueue, QueueExact
      <3>2. ASSUME InQueue(q), q # h PROVE InQueue(q)'
        <4>1. PICK j \in DOMAIN waiters : waiters[j] = q
          BY <3>2 DEF InQueue
        <4>2. j # 1 /\ j - 1 \in 1..(Len(waiters) - 1)
          BY <4>1, <3>2, <1>1
        <4>3. waiters'[j - 1] = q /\ j - 1 \in DOMAIN waiters'
          BY <4>1, <4>2, <1>1
        <4> QED
          BY <4>3 DEF InQueue
      <3> QED
        BY <3>1, <3>2
    <2>3. \A q \in Requests : phase'[q] = "waiting" <=> InQueue(q)'
      BY <2>2, <1>1, <1>2, <1>3 DEF QueueExact
    <2> QED
      BY <2>1, <2>3 DEF QueueExact
  <1>7. WorkConserving'
    BY DEF WorkConserving
  <1> QED
    BY <1>4, <1>5, <1>6, <1>7

\* A signal that fires while its request is queued.
LEMMA AbortQueuedKeeps ==
  ASSUME IInv, NEW r \in Requests, AbortQueued(r)
  PROVE  IInv'
  <1> USE DEF IInv, TypeOK, MoveTo
  <1>1. PICK i \in DOMAIN waiters : waiters[i] = r /\ waiters' = Splice(waiters, i)
    BY DEF AbortQueued
  <1>2. /\ waiters' \in Seq(Requests)
        /\ Len(waiters') = Len(waiters) - 1
        /\ \A j \in 1..(Len(waiters) - 1) :
              waiters'[j] = IF j < i THEN waiters[j] ELSE waiters[j + 1]
    BY <1>1, SpliceFacts
  <1>3. TypeOK'
    BY <1>2 DEF AbortQueued, Phases, Settled
  <1>4. PermitsExact'
    BY SameHolders DEF AbortQueued, Holding
  <1>5. QueueExact'
    <2>1. \A j, k \in DOMAIN waiters' : waiters'[j] = waiters'[k] => j = k
      <3> SUFFICES ASSUME NEW j \in 1..(Len(waiters) - 1), NEW k \in 1..(Len(waiters) - 1),
                          waiters'[j] = waiters'[k]
                   PROVE  j = k
        BY <1>2
      <3>1. PICK m \in DOMAIN waiters, n \in DOMAIN waiters :
              /\ m = (IF j < i THEN j ELSE j + 1) /\ waiters'[j] = waiters[m]
              /\ n = (IF k < i THEN k ELSE k + 1) /\ waiters'[k] = waiters[n]
        BY <1>2
      <3>2. m = n
        BY <3>1 DEF QueueExact
      <3> QED
        BY <3>1, <3>2
    <2>2. \A q \in Requests : InQueue(q)' <=> (InQueue(q) /\ q # r)
      <3> SUFFICES ASSUME NEW q \in Requests
                   PROVE  InQueue(q)' <=> (InQueue(q) /\ q # r)
        OBVIOUS
      <3>1. ASSUME InQueue(q)' PROVE InQueue(q) /\ q # r
        <4>1. PICK j \in 1..(Len(waiters) - 1) :
                (IF j < i THEN waiters[j] ELSE waiters[j + 1]) = q
          BY <3>1, <1>2 DEF InQueue
        <4>2. PICK k \in DOMAIN waiters : k # i /\ waiters[k] = q
          BY <4>1
        <4> QED
          BY <4>2, <1>1 DEF InQueue, QueueExact
      <3>2. ASSUME InQueue(q), q # r PROVE InQueue(q)'
        <4>1. PICK k \in DOMAIN waiters : waiters[k] = q
          BY <3>2 DEF InQueue
        <4>2. k # i
          BY <4>1, <3>2, <1>1
        <4>3. PICK j \in DOMAIN waiters' : waiters'[j] = q
          <5>1. CASE k < i
            BY <5>1, <4>1, <1>2
          <5>2. CASE k > i
            <6>1. k - 1 \in 1..(Len(waiters) - 1) /\ ~(k - 1 < i)
              BY <5>2
            <6>2. waiters'[k - 1] = q
              BY <6>1, <4>1, <1>2
            <6> QED
              BY <6>1, <6>2, <1>2
          <5> QED
            BY <5>1, <5>2, <4>2
        <4> QED
          BY <4>3 DEF InQueue
      <3> QED
        BY <3>1, <3>2
    <2>3. \A q \in Requests : phase'[q] = "waiting" <=> InQueue(q)'
      BY <2>2 DEF QueueExact, AbortQueued
    <2> QED
      BY <2>1, <2>3 DEF QueueExact
  <1>6. WorkConserving'
    BY <1>2 DEF WorkConserving, AbortQueued
  <1> QED
    BY <1>3, <1>4, <1>5, <1>6

\* destroy() drains the queue.
LEMMA DrainKeeps ==
  ASSUME IInv, Drain
  PROVE  IInv'
  <1> USE DEF IInv, TypeOK, Drain
  <1>1. TypeOK'
    BY DEF Phases, Settled
  <1>2. PermitsExact'
    BY SameHolders DEF QueueExact, Holding
  <1>3. QueueExact' /\ WorkConserving'
    BY DEF QueueExact, InQueue, WorkConserving
  <1> QED
    BY <1>1, <1>2, <1>3

----------------------------------------------------------------------------
\* The invariant is inductive.
THEOREM Inductive == IInv /\ [Next]_limiterVars => IInv'
  <1> SUFFICES ASSUME IInv, [Next]_limiterVars PROVE IInv'
    OBVIOUS
  <1>1. ASSUME NEW r \in Requests, Acquire(r) PROVE IInv'
    BY <1>1, AcquireKeeps, AcquireQueuedKeeps DEF Acquire
  <1>2. ASSUME NEW r \in Requests, Resume(r) \/ AbortElsewhere(r) \/ Again(r) PROVE IInv'
    BY <1>2, CallerKeeps
  <1>3. ASSUME NEW r \in Requests, Settle(r) PROVE IInv'
    BY <1>3, ReleaseUnusedKeeps, ReleaseTransferKeeps DEF Settle
  <1>4. ASSUME NEW r \in Requests, AbortQueued(r) PROVE IInv'
    BY <1>4, AbortQueuedKeeps
  <1>5. CASE Drain
    BY <1>5, DrainKeeps
  <1>6. CASE UNCHANGED limiterVars
    BY <1>6 DEF limiterVars, IInv, TypeOK, PermitsExact, Holders, QueueExact, InQueue,
                WorkConserving
  <1> QED
    BY <1>1, <1>2, <1>3, <1>4, <1>5, <1>6 DEF Next

\* The counters stay within the limit in every reachable state.
THEOREM TypeCorrect == Spec => []TypeOK
  <1>1. IInv => TypeOK
    BY DEF IInv
  <1> QED
    BY <1>1, InitEstablishes, Inductive, PTL DEF Spec

\* Permits are never leaked, freed twice or exceeded.
THEOREM PermitsAlwaysExact == Spec => []PermitsExact
  <1>1. IInv => PermitsExact
    BY DEF IInv
  <1> QED
    BY <1>1, InitEstablishes, Inductive, PTL DEF Spec

\* The queue never holds a request that is not waiting, nor one twice.
THEOREM QueueAlwaysExact == Spec => []QueueExact
  <1>1. IInv => QueueExact
    BY DEF IInv
  <1> QED
    BY <1>1, InitEstablishes, Inductive, PTL DEF Spec

\* Nobody ever waits while a permit is free.
THEOREM AlwaysWorkConserving == Spec => []WorkConserving
  <1>1. IInv => WorkConserving
    BY DEF IInv
  <1> QED
    BY <1>1, InitEstablishes, Inductive, PTL DEF Spec

\* Permits and queue stay exact together.
THEOREM AlwaysPermitsAndQueue == Spec => []PermitsAndQueue
  BY PermitsAlwaysExact, QueueAlwaysExact, AlwaysWorkConserving, PTL DEF PermitsAndQueue

----------------------------------------------------------------------------
\* Action properties and the implementation of the semaphore.

\* Permits are granted in order of arrival.
THEOREM NeverOvertakes == Spec => NoOvertaking
  <1>1. ASSUME IInv, [Next]_limiterVars, NEW r \in Requests,
               phase[r] \notin Holding, phase'[r] \in Holding
        PROVE  \/ waiters = <<>> /\ phase[r] = "idle"
               \/ waiters # <<>> /\ r = Head(waiters)
    <2> USE <1>1 DEF IInv, TypeOK, Holding
    <2>1. ASSUME NEW q \in Requests, Acquire(q)
          PROVE  waiters = <<>> /\ phase[r] = "idle"
      <3>1. AcquireFree(q) /\ q = r
        BY <2>1 DEF Acquire, AcquireAborted, AcquireFree, AcquireRefused, AcquireQueued, MoveTo
      <3> QED
        BY <3>1 DEF AcquireFree, PermitFree, WorkConserving
    <2>2. ASSUME NEW q \in Requests, Settle(q)
          PROVE  waiters # <<>> /\ r = Head(waiters)
      <3>1. CASE ReleaseUnused(q)
        BY <3>1 DEF ReleaseUnused, MoveTo
      <3>2. CASE ReleaseTransfer(q)
        BY <3>2 DEF ReleaseTransfer
      <3> QED
        BY <2>2, <3>1, <3>2 DEF Settle
    <2>3. ASSUME NEW q \in Requests,
                 Resume(q) \/ AbortQueued(q) \/ AbortElsewhere(q) \/ Again(q)
          PROVE  FALSE
      BY <2>3 DEF Resume, AbortQueued, AbortElsewhere, Again, MoveTo
    <2>4. CASE Drain
      BY <2>4 DEF Drain
    <2>5. CASE UNCHANGED limiterVars
      BY <2>5 DEF limiterVars
    <2> QED
      BY <2>1, <2>2, <2>3, <2>4, <2>5 DEF Next
  <1>2. IInv /\ [Next]_limiterVars =>
          [\A r \in Requests :
             (phase[r] \notin Holding /\ phase'[r] \in Holding)
               => \/ waiters = <<>> /\ phase[r] = "idle"
                  \/ waiters # <<>> /\ r = Head(waiters)]_limiterVars
    BY <1>1
  <1> QED
    BY <1>2, InitEstablishes, Inductive, PTL DEF Spec, NoOvertaking

\* The holders after a step that moves no request into or out of them.
LEMMA HoldersUnchanged ==
  ASSUME \A r \in Requests : phase'[r] \in Holding <=> phase[r] \in Holding
  PROVE  Holders' = Holders
  BY DEF Holders

\* The semaphore counts its holders as the limiter's invariant does.
LEMMA SameCount == Sem!Cardinality(Holders) = Cardinality(Holders)
  BY DEF Cardinality, Sem!Cardinality

\* Every step of the limiter is a step of the semaphore, or changes nothing of it.
LEMMA StepImplements ==
  ASSUME IInv, [Next]_limiterVars
  PROVE  [Sem!SemNext]_(Sem!semaphoreVars)
  <1> USE DEF IInv, TypeOK, MoveTo
  <1>1. ASSUME NEW r \in Requests,
               \/ AcquireAborted(r) \/ AcquireRefused(r) \/ Resume(r)
               \/ AbortElsewhere(r) \/ Again(r)
        PROVE  UNCHANGED Sem!semaphoreVars
    BY <1>1, HoldersUnchanged DEF AcquireAborted, AcquireRefused, Resume, AbortElsewhere, Again,
         Holding, Settled, Sem!semaphoreVars
  <1>2. ASSUME NEW r \in Requests, AcquireFree(r) PROVE Sem!Enter(r)
    <2>1. r \notin Holders /\ Holders' = Holders \cup {r}
      BY <1>2 DEF AcquireFree, Holders, Holding
    <2> QED
      BY <1>2, <2>1, SameCount DEF AcquireFree, PermitFree, WorkConserving, PermitsExact, Sem!Enter
  <1>3. ASSUME NEW r \in Requests, AcquireQueued(r) PROVE Sem!Join(r)
    <2>1. r \notin Holders /\ Holders' = Holders
      BY <1>3, HoldersUnchanged DEF AcquireQueued, Holders, Holding
    <2>2. ~Sem!InLine(r)
      BY <1>3 DEF AcquireQueued, QueueExact, InQueue, Sem!InLine
    <2> QED
      BY <1>3, <2>1, <2>2, SameCount DEF AcquireQueued, PermitFree, PermitsExact, Sem!Join
  <1>4. ASSUME NEW r \in Requests, ReleaseUnused(r) PROVE Sem!Leave(r)
    BY <1>4 DEF ReleaseUnused, Holders, Holding, Sem!Leave
  <1>5. ASSUME NEW r \in Requests, ReleaseTransfer(r) PROVE Sem!Pass(r)
    <2> DEFINE h == Head(waiters)
    <2>1. h \in Requests /\ phase[h] = "waiting" /\ h # r
      BY <1>5, TailFacts DEF ReleaseTransfer, QueueExact, InQueue
    <2>2. phase' = [phase EXCEPT ![r] = "done", ![h] = "granted"]
      BY <1>5 DEF ReleaseTransfer
    <2> HIDE DEF h
    <2>3. Holders' = (Holders \ {r}) \cup {h} /\ r \in Holders
      BY <1>5, <2>1, <2>2 DEF ReleaseTransfer, Holders, Holding
    <2> QED
      BY <1>5, <2>3 DEF h, ReleaseTransfer, Sem!Pass
  <1>6. ASSUME NEW r \in Requests, AbortQueued(r) PROVE \E i \in DOMAIN waiters : Sem!Quit(i)
    <2>1. Holders' = Holders
      BY <1>6, HoldersUnchanged DEF AbortQueued, Holding
    <2> QED
      BY <1>6, <2>1 DEF AbortQueued, Splice, Sem!Quit
  <1>7. CASE Drain
    <2>1. Holders' = Holders
      BY <1>7, HoldersUnchanged DEF Drain, QueueExact, Holding
    <2>2. Sem!Dismiss
      BY <1>7, <2>1 DEF Drain, Sem!Dismiss
    <2> QED
      BY <2>2 DEF Sem!SemNext
  <1>8. CASE UNCHANGED limiterVars
    BY <1>8 DEF limiterVars, Holders, Sem!semaphoreVars
  <1> QED
    BY <1>1, <1>2, <1>3, <1>4, <1>5, <1>6, <1>7, <1>8 DEF Next, Acquire, Settle, Sem!SemNext

\* The limiter implements the semaphore: at most MaxConcurrent holders, one line,
\* served in order, and a freed permit handed over in the step that frees it.
THEOREM LimiterIsSemaphore == Spec => ImplementsSemaphore
  <1>1. Init => Sem!SemInit
    BY DEF Init, Holders, Holding, Sem!SemInit
  <1>2. IInv /\ [Next]_limiterVars => [Sem!SemNext]_(Sem!semaphoreVars)
    BY StepImplements
  <1> QED
    BY <1>1, <1>2, InitEstablishes, Inductive, PTL DEF Spec, ImplementsSemaphore, Sem!SemSpec

=============================================================================
