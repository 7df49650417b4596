------------------------- MODULE SendPipelineProofs -------------------------
(***************************************************************************)
(* The pipeline uses each of its layers as the layer's own module assumes, *)
(* for any number of calls and any configuration.  What it then holds of   *)
(* them together is an invariant of the permits, of the breaker's slots,   *)
(* of the entry that owns the key, and of what the layers say of one call. *)
(***************************************************************************)
EXTENDS SendPipeline, FiniteSetTheorems, TLAPS

\* Every step is a step of the limiter, or leaves it alone.
LEMMA LimiterStep == [Next]_pipelineVars => [Limiter!Next]_(Limiter!limiterVars)
  <1> SUFFICES ASSUME [Next]_pipelineVars PROVE [Limiter!Next]_(Limiter!limiterVars)
      OBVIOUS
  <1> USE DEF permits, Limiter!limiterVars
  <1>1. ASSUME NEW c \in Calls, Send(c) \/ Share(c) \/ Publish(c) \/ Answer(c)
        PROVE  UNCHANGED Limiter!limiterVars
      BY <1>1 DEF Send, Share, Publish, Answer
  <1>2. ASSUME NEW c \in Calls, Request(c) PROVE Limiter!Next
      BY <1>2 DEF Request, Limiter!Next
  <1>3. ASSUME NEW c \in Calls, Run(c) PROVE Limiter!Next
      BY <1>3 DEF Run, Limiter!Next
  <1>4. ASSUME NEW c \in Calls, EndAttempts(c) PROVE Limiter!Next
      BY <1>4 DEF EndAttempts, Limiter!Next
  <1>5. ASSUME NEW c \in Calls, Abort(c) PROVE Limiter!Next
      BY <1>5 DEF Abort, Limiter!Next
  <1>6. CASE Destroy
      BY <1>6 DEF Destroy, Limiter!Next
  <1>7. CASE Tick
      BY <1>7 DEF Tick
  <1>8. CASE UNCHANGED pipelineVars
      BY <1>8 DEF pipelineVars
  <1> QED BY <1>1, <1>2, <1>3, <1>4, <1>5, <1>6, <1>7, <1>8 DEF Next, Progress

\* A permit is taken, handed on and given back as the limiter expects of its
\* callers: what is proved of the limiter holds of the client that uses it.
THEOREM LimiterUsedWell == Spec => UsesLimiter
  <1>1. Init => Limiter!Init
      BY DEF Init
  <1> QED BY <1>1, LimiterStep, PTL DEF Spec, UsesLimiter, Limiter!Spec

----------------------------------------------------------------------------
\* Every step is a step of the breaker, or leaves it alone.
LEMMA BreakerStep == [Next]_pipelineVars => [Breaker!Next]_(Breaker!breakerVars)
  <1> SUFFICES ASSUME [Next]_pipelineVars PROVE [Breaker!Next]_(Breaker!breakerVars)
      OBVIOUS
  <1> USE DEF circuit, Breaker!breakerVars, Breaker!circuit
  <1>1. ASSUME NEW c \in Calls, Share(c) \/ Request(c) \/ Run(c) \/ EndAttempts(c) \/ Publish(c) \/ Abort(c)
        PROVE  UNCHANGED Breaker!breakerVars
      BY <1>1 DEF Share, Request, Run, EndAttempts, Publish, Abort
  <1>2. ASSUME NEW c \in Calls, Send(c) PROVE Breaker!Next
      BY <1>2 DEF Send, Breaker!Next
  <1>3. ASSUME NEW c \in Calls, Answer(c) PROVE Breaker!Next
      BY <1>3 DEF Answer, Breaker!Next, Breaker!Settle
  <1>4. CASE Destroy
      BY <1>4 DEF Destroy
  <1>5. CASE Tick
      BY <1>5 DEF Tick, Breaker!Next
  <1>6. CASE UNCHANGED pipelineVars
      BY <1>6 DEF pipelineVars
  <1> QED BY <1>1, <1>2, <1>3, <1>4, <1>5, <1>6 DEF Next, Progress

\* A call settles with the breaker that admitted it, and once.
THEOREM BreakerUsedWell == Spec => UsesBreaker
  <1>1. Init => Breaker!Init
      BY DEF Init
  <1> QED BY <1>1, BreakerStep, PTL DEF Spec, UsesBreaker, Breaker!Spec

----------------------------------------------------------------------------
\* Every step is a step of the dedup map, or leaves it alone.
LEMMA DedupStep == [Next]_pipelineVars => [Dedup!Next]_(Dedup!dedupVars)
  <1> SUFFICES ASSUME [Next]_pipelineVars PROVE [Dedup!Next]_(Dedup!dedupVars)
      OBVIOUS
  <1> USE DEF map, Dedup!dedupVars, Dedup!mapVars, Dedup!callVars
  <1>1. ASSUME NEW c \in Calls, Send(c) \/ Run(c) \/ EndAttempts(c) \/ Answer(c) \/ Abort(c)
        PROVE  UNCHANGED Dedup!dedupVars
      BY <1>1 DEF Send, Run, EndAttempts, Answer, Abort
  <1>2. ASSUME NEW c \in Calls, Share(c) PROVE Dedup!Next
      BY <1>2 DEF Share, Admitted, Dedup!Next, Dedup!Execute
  <1>3. ASSUME NEW c \in Calls, Request(c) PROVE Dedup!Next
      BY <1>3 DEF Request, Admitted, Dedup!Next, Dedup!Execute
  <1>4. ASSUME NEW c \in Calls, Publish(c) PROVE Dedup!Next
      BY <1>4 DEF Publish, Dedup!Next, Dedup!Settle
  <1>5. CASE Destroy
      BY <1>5 DEF Destroy, Dedup!Next
  <1>6. CASE Tick
      BY <1>6 DEF Tick, Dedup!Next
  <1>7. CASE UNCHANGED pipelineVars
      BY <1>7 DEF pipelineVars
  <1> QED BY <1>1, <1>2, <1>3, <1>4, <1>5, <1>6, <1>7 DEF Next, Progress

\* An entry settles once, for its own leader, and its timer is left to the map.
THEOREM DedupUsedWell == Spec => UsesDedup
  <1>1. Init => Dedup!Init
      BY DEF Init
  <1> QED BY <1>1, DedupStep, PTL DEF Spec, UsesDedup, Dedup!Spec

----------------------------------------------------------------------------
\* Every layer is used as its own module assumes, for any calls and limits: what
\* is proved of a layer from its specification holds of it in the pipeline.
THEOREM LayersUsedWell == Spec => UsesLayers
  BY LimiterUsedWell, BreakerUsedWell, DedupUsedWell DEF UsesLayers

----------------------------------------------------------------------------
(* What each layer keeps, in the terms of the pipeline.                    *)

\* The limiter: the counter is the number of calls that hold a permit, and the
\* queue holds the calls that wait, each of them once, and only behind a holder.
PermitsKept ==
  /\ phase \in [Calls -> Limiter!Phases]
  /\ waiters \in Seq(Calls)
  /\ active = Cardinality(Limiter!Holders)
  /\ \A i \in DOMAIN waiters : phase[waiters[i]] = "waiting"
  /\ \A i, j \in DOMAIN waiters : waiters[i] = waiters[j] => i = j
  /\ \A c \in Calls : phase[c] = "waiting" => Limiter!InQueue(c)
  /\ waiters # <<>> => active # 0

LEMMA HoldersFinite == IsFiniteSet(Limiter!Holders) /\ Cardinality(Limiter!Holders) \in Nat
<1>1. Limiter!Holders \subseteq Calls
  BY DEF Limiter!Holders
<1>. QED  BY <1>1, PipelineAssumption, FS_Subset, FS_CardinalityType

\* A step that moves no call into or out of the holders.
LEMMA SameHolders ==
  ASSUME PermitsKept, active' = active,
         \A c \in Calls : phase'[c] \in Limiter!Holding <=> phase[c] \in Limiter!Holding
  PROVE  active' = Cardinality(Limiter!Holders')
<1>1. Limiter!Holders' = Limiter!Holders
  BY DEF Limiter!Holders
<1>. QED  BY <1>1 DEF PermitsKept

\* A call that asks for a permit takes one, joins the queue or is refused.
LEMMA AcquireKeeps ==
  ASSUME PermitsKept, NEW c \in Calls, Limiter!Acquire(c)
  PROVE  PermitsKept'
<1>. USE DEF PermitsKept, Limiter!MoveTo, Limiter!InQueue
<1>1. CASE Limiter!AcquireAborted(c) \/ Limiter!AcquireRefused(c)
  <2>1. phase' \in [Calls -> Limiter!Phases] /\ waiters' = waiters /\ active' = active
    BY <1>1 DEF Limiter!AcquireAborted, Limiter!AcquireRefused, Limiter!Phases, Limiter!Settled
  <2>2. phase[c] = "idle" /\ phase'[c] \in {"aborted", "refused"}
        /\ \A d \in Calls \ {c} : phase'[d] = phase[d]
    BY <1>1 DEF Limiter!AcquireAborted, Limiter!AcquireRefused
  <2>3. active' = Cardinality(Limiter!Holders')
    BY <2>1, <2>2, SameHolders DEF Limiter!Holding
  <2>. QED  BY <2>1, <2>2, <2>3
<1>2. CASE Limiter!AcquireFree(c)
  <2>1. phase' \in [Calls -> Limiter!Phases] /\ waiters' = waiters /\ active' = active + 1
        /\ phase[c] = "idle" /\ phase' = [phase EXCEPT ![c] = "granted"]
    BY <1>2 DEF Limiter!AcquireFree, Limiter!Phases, Limiter!Holding
  <2>2. Limiter!Holders' = Limiter!Holders \cup {c} /\ c \notin Limiter!Holders
    BY <2>1 DEF Limiter!Holders, Limiter!Holding
  <2>3. active' = Cardinality(Limiter!Holders')
    BY <2>1, <2>2, HoldersFinite, FS_AddElement
  <2>4. active' # 0
    BY <2>1, HoldersFinite
  <2>. QED  BY <2>1, <2>3, <2>4
<1>3. CASE Limiter!AcquireQueued(c)
  <2>1. phase' \in [Calls -> Limiter!Phases] /\ waiters' = Append(waiters, c) /\ active' = active
        /\ phase[c] = "idle" /\ phase' = [phase EXCEPT ![c] = "waiting"]
    BY <1>3 DEF Limiter!AcquireQueued, Limiter!Phases
  <2>2. active' = Cardinality(Limiter!Holders')
    BY <2>1, SameHolders DEF Limiter!Holding
  <2>3. /\ waiters' \in Seq(Calls) /\ Len(waiters') = Len(waiters) + 1
        /\ \A i \in 1..Len(waiters) : waiters'[i] = waiters[i]
        /\ waiters'[Len(waiters) + 1] = c
    BY <2>1
  <2>4. \A i \in DOMAIN waiters : waiters[i] # c
    BY <2>1
  <2>5. active' # 0
    BY <1>3, <2>1, HoldersFinite, PipelineAssumption DEF Limiter!AcquireQueued, Limiter!PermitFree
  <2>. QED  BY <2>1, <2>2, <2>3, <2>4, <2>5
<1>. QED  BY <1>1, <1>2, <1>3 DEF Limiter!Acquire

\* A call that settles gives its permit back, or hands it to the head of the queue.
LEMMA SettleKeeps ==
  ASSUME PermitsKept, NEW c \in Calls, Limiter!Settle(c)
  PROVE  PermitsKept'
<1>. USE DEF PermitsKept, Limiter!MoveTo, Limiter!InQueue
<1>1. phase[c] = "running" /\ c \in Limiter!Holders
  BY DEF Limiter!Settle, Limiter!ReleaseUnused, Limiter!ReleaseTransfer, Limiter!Holders, Limiter!Holding
<1>2. /\ IsFiniteSet(Limiter!Holders \ {c})
      /\ Cardinality(Limiter!Holders \ {c}) = Cardinality(Limiter!Holders) - 1
  BY <1>1, HoldersFinite, FS_RemoveElement
<1>3. active # 0 /\ active \in Nat
  BY <1>1, HoldersFinite, FS_EmptySet
<1>4. CASE Limiter!ReleaseUnused(c)
  <2>1. phase' \in [Calls -> Limiter!Phases] /\ waiters' = waiters /\ active' = active - 1
        /\ waiters = <<>> /\ phase' = [phase EXCEPT ![c] = "done"]
    BY <1>3, <1>4 DEF Limiter!ReleaseUnused, Limiter!Phases, Limiter!Settled
  <2>2. Limiter!Holders' = Limiter!Holders \ {c}
    BY <2>1 DEF Limiter!Holders, Limiter!Holding
  <2>. QED  BY <1>2, <2>1, <2>2
<1>5. CASE Limiter!ReleaseTransfer(c)
  <2>. DEFINE h == Head(waiters)
  <2>1. /\ h \in Calls /\ 1 \in DOMAIN waiters /\ h = waiters[1]
        /\ Tail(waiters) \in Seq(Calls) /\ Len(Tail(waiters)) = Len(waiters) - 1
        /\ \A i \in 1..(Len(waiters) - 1) : Tail(waiters)[i] = waiters[i + 1]
    BY <1>5 DEF Limiter!ReleaseTransfer
  <2>2. /\ waiters' = Tail(waiters) /\ active' = active
        /\ phase' = [phase EXCEPT ![c] = "done", ![h] = "granted"]
    BY <1>5 DEF Limiter!ReleaseTransfer
  <2>. HIDE DEF h
  <2>3. phase[h] = "waiting" /\ h # c
    BY <1>1, <2>1
  <2>4. phase' \in [Calls -> Limiter!Phases]
    BY <2>1, <2>2 DEF Limiter!Phases, Limiter!Settled, Limiter!Holding
  <2>5. Limiter!Holders' = (Limiter!Holders \ {c}) \cup {h} /\ h \notin Limiter!Holders
    BY <2>1, <2>2, <2>3 DEF Limiter!Holders, Limiter!Holding
  <2>6. active' = Cardinality(Limiter!Holders')
    <3>1. Cardinality((Limiter!Holders \ {c}) \cup {h}) = Cardinality(Limiter!Holders \ {c}) + 1
      BY <1>2, <2>5, FS_AddElement
    <3>. QED  BY <1>2, <1>3, <2>2, <2>5, <3>1
  <2>7. \A i \in 1..(Len(waiters) - 1) :
           waiters'[i] = waiters[i + 1] /\ waiters'[i] # h /\ phase'[waiters'[i]] = "waiting"
    BY <1>1, <2>1, <2>2, SMTT(20)
  <2>8. \A i, j \in DOMAIN waiters' : waiters'[i] = waiters'[j] => i = j
    BY <2>1, <2>2, <2>7
  <2>9. ASSUME NEW d \in Calls, phase'[d] = "waiting" PROVE Limiter!InQueue(d)'
    <3>1. d # h /\ phase[d] = "waiting"
      BY <2>1, <2>2, <2>9
    <3>2. PICK i \in DOMAIN waiters : waiters[i] = d
      BY <3>1
    <3>3. i - 1 \in 1..(Len(waiters) - 1) /\ (i - 1) + 1 = i
      BY <2>1, <3>1, <3>2
    <3>4. i - 1 \in DOMAIN waiters' /\ waiters'[i - 1] = d
      BY <2>1, <2>2, <3>2, <3>3
    <3>. QED  BY <3>4
  <2>. QED  BY <1>3, <2>1, <2>2, <2>4, <2>6, <2>7, <2>8, <2>9
<1>. QED  BY <1>4, <1>5 DEF Limiter!Settle

\* A signal takes its call out of the queue and leaves the others where they are.
LEMMA AbortQueuedKeeps ==
  ASSUME PermitsKept, NEW c \in Calls, Limiter!AbortQueued(c)
  PROVE  PermitsKept'
<1>. USE DEF PermitsKept, Limiter!MoveTo, Limiter!InQueue
<1>1. PICK i \in DOMAIN waiters : waiters[i] = c /\ waiters' = Limiter!Splice(waiters, i)
  BY DEF Limiter!AbortQueued
<1>2. phase[c] = "waiting" /\ phase' = [phase EXCEPT ![c] = "aborted"] /\ active' = active
  BY DEF Limiter!AbortQueued
<1>3. phase' \in [Calls -> Limiter!Phases]
  BY <1>2 DEF Limiter!Phases, Limiter!Settled
<1>4. active' = Cardinality(Limiter!Holders')
  BY <1>2, SameHolders DEF Limiter!Holding
<1>. DEFINE front == SubSeq(waiters, 1, i - 1)
            back  == SubSeq(waiters, i + 1, Len(waiters))
<1>5. i \in 1..Len(waiters) /\ Len(waiters) \in Nat
  BY <1>1
<1>6. front \in Seq(Calls) /\ Len(front) = i - 1 /\ \A j \in 1..(i - 1) : front[j] = waiters[j]
  BY <1>5
<1>7. back \in Seq(Calls) /\ Len(back) = Len(waiters) - i
      /\ \A j \in 1..(Len(waiters) - i) : back[j] = waiters[i + j]
  BY <1>5
<1>8. waiters' = front \o back
  BY <1>1 DEF Limiter!Splice
<1>. HIDE DEF front, back
<1>9. waiters' \in Seq(Calls) /\ Len(waiters') = Len(waiters) - 1
  BY <1>5, <1>6, <1>7, <1>8
<1>10. \A j \in 1..(Len(waiters) - 1) :
         waiters'[j] = IF j < i THEN waiters[j] ELSE waiters[j + 1]
  <2>1. ASSUME NEW j \in 1..(Len(waiters) - 1), j < i PROVE waiters'[j] = waiters[j]
    BY <1>5, <1>6, <1>7, <1>8, <2>1
  <2>2. ASSUME NEW j \in 1..(Len(waiters) - 1), ~(j < i) PROVE waiters'[j] = waiters[j + 1]
    <3>0. j \in 1..(Len(front) + Len(back)) /\ j > Len(front)
      BY <1>5, <1>6, <1>7, <2>2
    <3>1. (front \o back)[j] = back[j - (i - 1)]
      BY <1>6, <1>7, <3>0, SMTT(20)
    <3>2. j - (i - 1) \in 1..(Len(waiters) - i) /\ i + (j - (i - 1)) = j + 1
      BY <1>5, <2>2
    <3>. QED  BY <1>7, <1>8, <3>1, <3>2
  <2>. QED  BY <2>1, <2>2
\* Each place of the new queue is a place of the old one, and not that of c.
<1>11. \A j \in DOMAIN waiters' :
          \E k \in DOMAIN waiters : /\ k = (IF j < i THEN j ELSE j + 1) /\ k # i
                                    /\ waiters'[j] = waiters[k]
  BY <1>5, <1>9, <1>10
<1>12. \A j \in DOMAIN waiters' : phase'[waiters'[j]] = "waiting"
  <2>. SUFFICES ASSUME NEW j \in DOMAIN waiters' PROVE phase'[waiters'[j]] = "waiting"
    OBVIOUS
  <2>1. PICK k \in DOMAIN waiters : k # i /\ waiters'[j] = waiters[k]
    BY <1>11
  <2>. QED  BY <1>1, <1>2, <2>1
<1>13. ASSUME NEW j \in DOMAIN waiters', NEW m \in DOMAIN waiters', waiters'[j] = waiters'[m]
       PROVE  j = m
  <2>1. PICK k \in DOMAIN waiters : k = (IF j < i THEN j ELSE j + 1) /\ waiters'[j] = waiters[k]
    BY <1>11
  <2>2. PICK n \in DOMAIN waiters : n = (IF m < i THEN m ELSE m + 1) /\ waiters'[m] = waiters[n]
    BY <1>11
  <2>3. k = n
    BY <1>13, <2>1, <2>2
  <2>4. j \in Int /\ m \in Int /\ i \in Int
    BY <1>5, <1>9
  <2>. QED  BY <2>1, <2>2, <2>3, <2>4
<1>14. ASSUME NEW d \in Calls, phase'[d] = "waiting" PROVE Limiter!InQueue(d)'
  <2>1. d # c /\ phase[d] = "waiting"
    BY <1>2, <1>14
  <2>2. PICK k \in DOMAIN waiters : waiters[k] = d
    BY <2>1
  <2>3. k # i /\ k \in 1..Len(waiters)
    BY <1>1, <2>1, <2>2
  <2>4. CASE k < i
    BY <1>5, <1>9, <1>10, <2>2, <2>3, <2>4
  <2>5. CASE k > i
    <3>1. k - 1 \in 1..(Len(waiters) - 1) /\ ~(k - 1 < i) /\ (k - 1) + 1 = k
      BY <1>5, <2>3, <2>5
    <3>2. k - 1 \in DOMAIN waiters' /\ waiters'[k - 1] = d
      BY <1>9, <1>10, <2>2, <3>1
    <3>. QED  BY <3>2
  <2>. QED  BY <1>5, <2>3, <2>4, <2>5
<1>. QED  BY <1>1, <1>2, <1>3, <1>4, <1>9, <1>12, <1>13, <1>14

\* What the limiter keeps, it keeps in each of its steps.
LEMMA PermitsStep ==
  ASSUME PermitsKept, [Limiter!Next]_(Limiter!limiterVars)
  PROVE  PermitsKept'
<1>. USE DEF PermitsKept, Limiter!MoveTo, Limiter!InQueue
<1>1. ASSUME NEW c \in Calls, Limiter!Resume(c) \/ Limiter!AbortElsewhere(c) \/ Limiter!Again(c)
      PROVE  PermitsKept'
  <2>1. phase' \in [Calls -> Limiter!Phases] /\ waiters' = waiters /\ active' = active
    BY <1>1 DEF Limiter!Resume, Limiter!AbortElsewhere, Limiter!Again, Limiter!Phases, Limiter!Holding
  <2>2. phase[c] # "waiting" \/ phase' = phase
    BY <1>1 DEF Limiter!Resume, Limiter!AbortElsewhere, Limiter!Again, Limiter!Settled
  <2>3. \A d \in Calls : d # c => phase'[d] = phase[d]
    BY <1>1 DEF Limiter!Resume, Limiter!AbortElsewhere, Limiter!Again
  <2>4. phase'[c] \in Limiter!Holding <=> phase[c] \in Limiter!Holding
    BY <1>1 DEF Limiter!Resume, Limiter!AbortElsewhere, Limiter!Again, Limiter!Holding, Limiter!Settled
  <2>5. active' = Cardinality(Limiter!Holders')
    BY <2>1, <2>3, <2>4, SameHolders
  <2>6. \A i \in DOMAIN waiters : waiters[i] \in Calls
    OBVIOUS
  <2>7. phase'[c] = "waiting" => phase[c] = "waiting"
    BY <1>1 DEF Limiter!Resume, Limiter!AbortElsewhere, Limiter!Again
  <2>. QED  BY <2>1, <2>2, <2>3, <2>5, <2>6, <2>7
<1>2. CASE Limiter!Drain
  <2>1. /\ waiters' = <<>> /\ active' = active
        /\ phase' = [c \in Calls |-> IF Limiter!InQueue(c) THEN "drained" ELSE phase[c]]
    BY <1>2 DEF Limiter!Drain
  <2>2. \A c \in Calls : Limiter!InQueue(c) => phase[c] = "waiting"
    BY DEF Limiter!InQueue
  <2>3. phase' \in [Calls -> Limiter!Phases]
    BY <2>1 DEF Limiter!Phases, Limiter!Settled
  <2>4. active' = Cardinality(Limiter!Holders')
    BY <2>1, <2>2, SameHolders DEF Limiter!Holding
  <2>. QED  BY <2>1, <2>3, <2>4
<1>3. CASE UNCHANGED Limiter!limiterVars
  BY <1>3, SameHolders DEF Limiter!limiterVars
<1>. QED  BY <1>1, <1>2, <1>3, AcquireKeeps, SettleKeeps, AbortQueuedKeeps DEF Limiter!Next

\* The breaker: a slot that is counted as taken is held by a call in flight.
SlotsKept ==
  /\ call \in [Calls -> {"idle", "rejected"} \cup Breaker!InFlight]
  /\ probes \in Nat
  /\ probes <= Cardinality(Breaker!Probing)

LEMMA ProbingFinite == IsFiniteSet(Breaker!Probing) /\ Cardinality(Breaker!Probing) \in Nat
<1>1. Breaker!Probing \subseteq Calls
  BY DEF Breaker!Probing
<1>. QED  BY <1>1, PipelineAssumption, FS_Subset, FS_CardinalityType

\* A call that begins: it may be a probe, and then there is one probe more.
LEMMA ExecuteKeeps ==
  ASSUME SlotsKept, NEW c \in Calls, Breaker!Execute(c)
  PROVE  SlotsKept'
<1>. USE DEF SlotsKept, Breaker!BeginAs, Breaker!circuit
<1>1. ASSUME NEW p \in {"flying", "rejected"}, Breaker!BeginAs(c, p), probes' = probes
      PROVE  SlotsKept'
  <2>1. call' \in [Calls -> {"idle", "rejected"} \cup Breaker!InFlight]
    BY <1>1 DEF Breaker!InFlight
  <2>2. Breaker!Probing' = Breaker!Probing
    BY <1>1 DEF Breaker!Probing
  <2>. QED  BY <1>1, <2>1, <2>2
<1>2. ASSUME Breaker!BeginAs(c, "probing"), probes' = 1 \/ probes' = probes + 1
      PROVE  SlotsKept'
  <2>1. call' \in [Calls -> {"idle", "rejected"} \cup Breaker!InFlight]
    BY <1>2 DEF Breaker!InFlight
  <2>2. Breaker!Probing' = Breaker!Probing \cup {c} /\ c \notin Breaker!Probing
    BY <1>2 DEF Breaker!Probing
  <2>3. Cardinality(Breaker!Probing') = Cardinality(Breaker!Probing) + 1
    BY <2>2, ProbingFinite, FS_AddElement
  <2>4. probes' \in Nat /\ probes' <= Cardinality(Breaker!Probing) + 1
    BY <1>2, ProbingFinite
  <2>. QED  BY <2>1, <2>3, <2>4
<1>3. CASE Breaker!StartClosed(c)
  BY <1>1, <1>3 DEF Breaker!StartClosed
<1>4. CASE Breaker!RejectOpen(c)
  BY <1>1, <1>4 DEF Breaker!RejectOpen
<1>5. CASE Breaker!RejectHalfOpen(c)
  BY <1>1, <1>5 DEF Breaker!RejectHalfOpen
<1>6. CASE Breaker!StartFirstProbe(c)
  BY <1>2, <1>6 DEF Breaker!StartFirstProbe
<1>7. CASE Breaker!StartProbe(c)
  BY <1>2, <1>7 DEF Breaker!StartProbe
<1>. QED  BY <1>3, <1>4, <1>5, <1>6, <1>7 DEF Breaker!Execute

\* A call that settles returns its slot, or closes the circuit, which returns all.
LEMMA AnswerKeeps ==
  ASSUME SlotsKept, NEW c \in Calls, Breaker!Settle(c)
  PROVE  SlotsKept'
<1>. USE DEF SlotsKept
<1>1. Breaker!EndOf(c) /\ (probes' = Breaker!SlotsAfter(c) \/ probes' = 0)
  <2>1. CASE Breaker!Succeed(c)
    BY <2>1 DEF Breaker!Succeed, Breaker!SuccessWhileOpen, Breaker!SuccessWhileHalfOpen,
                Breaker!SuccessWhileClosed, Breaker!Close
  <2>2. CASE Breaker!Fail(c)
    BY <2>2 DEF Breaker!Fail, Breaker!FailureWhileOpen, Breaker!FailureWhileHalfOpen,
                Breaker!FailureWhileClosed
  <2>3. CASE Breaker!SettleUncounted(c)
    BY <2>3 DEF Breaker!SettleUncounted
  <2>. QED  BY <2>1, <2>2, <2>3 DEF Breaker!Settle
<1>2. call' \in [Calls -> {"idle", "rejected"} \cup Breaker!InFlight]
  BY <1>1 DEF Breaker!EndOf
<1>3. Breaker!Probing' = Breaker!Probing \ {c}
  BY <1>1 DEF Breaker!Probing, Breaker!EndOf
<1>4. CASE call[c] = "probing"
  <2>1. c \in Breaker!Probing
    BY <1>4 DEF Breaker!Probing
  <2>2. /\ Cardinality(Breaker!Probing') = Cardinality(Breaker!Probing) - 1
        /\ Cardinality(Breaker!Probing') \in Nat
    BY <1>3, <2>1, ProbingFinite, FS_RemoveElement, FS_CardinalityType
  <2>3. probes' \in Nat /\ probes' <= Cardinality(Breaker!Probing')
    BY <1>1, <1>4, <2>2, ProbingFinite DEF Breaker!SlotsAfter
  <2>. QED  BY <1>2, <2>3
<1>5. CASE call[c] # "probing"
  <2>1. Breaker!Probing' = Breaker!Probing
    BY <1>3, <1>5 DEF Breaker!Probing
  <2>2. probes' \in Nat /\ probes' <= Cardinality(Breaker!Probing)
    BY <1>1, <1>5, ProbingFinite DEF Breaker!SlotsAfter
  <2>. QED  BY <1>2, <2>1, <2>2
<1>. QED  BY <1>4, <1>5

\* What the breaker keeps, it keeps in each of its steps.
LEMMA SlotsStep ==
  ASSUME SlotsKept, [Breaker!Next]_(Breaker!breakerVars)
  PROVE  SlotsKept'
<1>. USE DEF SlotsKept, Breaker!circuit, Breaker!breakerVars
<1>1. ASSUME NEW c \in Calls, Breaker!Again(c) PROVE SlotsKept'
  <2>1. call' \in [Calls -> {"idle", "rejected"} \cup Breaker!InFlight] /\ probes' = probes
    BY <1>1 DEF Breaker!Again
  <2>2. Breaker!Probing' = Breaker!Probing
    BY <1>1 DEF Breaker!Again, Breaker!Probing
  <2>. QED  BY <2>1, <2>2
<1>2. ASSUME UNCHANGED call, probes' = probes \/ probes' = 0 PROVE SlotsKept'
  <2>1. Breaker!Probing' = Breaker!Probing
    BY <1>2 DEF Breaker!Probing
  <2>. QED  BY <1>2, <2>1, ProbingFinite
<1>3. CASE Breaker!Trip \/ Breaker!Reset \/ Breaker!Tick \/ Breaker!Recover
  BY <1>2, <1>3 DEF Breaker!Trip, Breaker!Reset, Breaker!Close, Breaker!Tick, Breaker!Recover
<1>4. CASE UNCHANGED Breaker!breakerVars
  BY <1>2, <1>4
<1>. QED  BY <1>1, <1>3, <1>4, ExecuteKeeps, AnswerKeeps DEF Breaker!Next

\* The dedup map.  A call that leads and has no answer has an entry in flight,
\* and a call that shares and has no answer shares an entry in flight: only such
\* calls hear of an entry that is not their own.
Led ==
  \A c \in Calls :
    /\ Dedup!Leading(c) <=> entry[c] = "pending"
    /\ role[c] = "new" => outcome[c] = "none"
    /\ entry[c] # "none" => window[c] = WindowMs
    /\ leader[c] # None => role[c] = "sharer"
    /\ role[c] = "sharer" /\ outcome[c] = "none" =>
         leader[c] \in Calls /\ entry[leader[c]] = "pending"

\* What is in flight owns the key, until the client is destroyed.
Owned == ~dropped => \A c \in Calls : entry[c] = "pending" => owner = c

\* The timer runs for a result that is kept and has what is left of its window,
\* and a result that is kept has its timer, until the client is destroyed.
Agree ==
  /\ owner # None => entry[owner] \in {"pending", "resolved"}
  /\ timer # None => Dedup!Resolved /\ age + timer = WindowMs
  /\ Dedup!Resolved /\ ~dropped => timer # None

EntryKept ==
  /\ owner \in Calls \cup {None}
  /\ entry \in [Calls -> {"none", "pending", "resolved", "failed"}]
  /\ window \in [Calls -> {WindowMs, None}]
  /\ role \in [Calls -> {"new", "leader", "sharer", "alone"}]
  /\ leader \in [Calls -> Calls \cup {None}]
  /\ outcome \in [Calls -> {"none", "ok", "failed", "aborted"}]
  /\ age \in Nat
  /\ timer \in Nat \cup {None}
  /\ Led /\ Owned /\ Agree

LEMMA OneWindow == Dedup!MaxWindow = WindowMs
<1>1. \A w \in {WindowMs} : \A v \in {WindowMs} : v <= w
  BY PipelineAssumption
<1>2. \E w \in {WindowMs} : \A v \in {WindowMs} : v <= w
  BY <1>1
<1>. QED  BY <1>2 DEF Dedup!MaxWindow

\* A call decides what it is to be.
LEMMA DecideKeeps ==
  ASSUME EntryKept, NEW c \in Calls, Dedup!Execute(c)
  PROVE  EntryKept'
<1>. USE DEF EntryKept, Dedup!Becomes, Dedup!mapVars
<1>0. None \notin Nat /\ None \notin Calls /\ WindowMs \in Nat
  BY PipelineAssumption
<1>1. CASE Dedup!Bypass(c)
  <2>1. Led' /\ Owned' /\ Agree'
    BY <1>1 DEF Dedup!Bypass, Led, Owned, Agree, Dedup!Leading, Dedup!Resolved
  <2>. QED  BY <1>1, <2>1 DEF Dedup!Bypass
<1>2. CASE Dedup!Join(c)
  <2>1. owner \in Calls /\ entry[owner] = "pending"
    BY <1>0, <1>2 DEF Dedup!Join, Dedup!Pending
  <2>2. /\ role[c] = "new" /\ role' = [role EXCEPT ![c] = "sharer"]
        /\ leader' = [leader EXCEPT ![c] = owner]
        /\ UNCHANGED <<owner, age, timer, entry, window, outcome, dropped>>
    BY <1>2 DEF Dedup!Join
  <2>3. Led'
    BY <2>1, <2>2 DEF Led, Dedup!Leading
  <2>4. Owned' /\ Agree'
    BY <2>2 DEF Owned, Agree, Dedup!Resolved
  <2>. QED  BY <2>1, <2>2, <2>3, <2>4
<1>3. CASE Dedup!JoinWindow(c, WindowMs)
  <2>1. owner \in Calls
    BY <1>0, <1>3 DEF Dedup!JoinWindow, Dedup!Resolved
  <2>2. Led' /\ Owned' /\ Agree'
    BY <1>3, <2>1 DEF Dedup!JoinWindow, Led, Owned, Agree, Dedup!Leading, Dedup!Resolved
  <2>. QED  BY <1>3, <2>1, <2>2 DEF Dedup!JoinWindow
<1>4. CASE Dedup!OwnRequest(c, WindowMs)
  <2>1. Led' /\ Owned' /\ Agree'
    BY <1>4 DEF Dedup!OwnRequest, Led, Owned, Agree, Dedup!Leading, Dedup!Resolved
  <2>. QED  BY <1>4, <2>1 DEF Dedup!OwnRequest
<1>5. CASE Dedup!Lead(c, WindowMs)
  <2>1. /\ owner' = c /\ entry' = [entry EXCEPT ![c] = "pending"]
        /\ window' = [window EXCEPT ![c] = WindowMs] /\ role[c] = "new"
        /\ role' = [role EXCEPT ![c] = "leader"]
        /\ UNCHANGED <<age, timer, leader, outcome, dropped>>
    BY <1>5 DEF Dedup!Lead
  \* A result that has lapsed has no timer left.
  <2>2. timer = None
    <3>1. CASE owner = None
      BY <3>1 DEF Agree, Dedup!Resolved
    <3>2. CASE Dedup!Lapsed(WindowMs) /\ timer # None
      BY <1>0, <3>2 DEF Dedup!Lapsed, Agree
    <3>. QED  BY <1>5, <3>1, <3>2 DEF Dedup!Lead, Dedup!Free
  \* Nothing else is in flight.
  <2>3. ~dropped => \A d \in Calls : entry[d] # "pending"
    BY <1>0, <1>5 DEF Dedup!Lead, Dedup!Free, Dedup!Lapsed, Dedup!Resolved, Owned
  <2>4. Led'
    BY <2>1 DEF Led, Dedup!Leading
  <2>5. Owned'
    BY <2>1, <2>3 DEF Owned
  <2>6. Agree'
    BY <2>1, <2>2 DEF Agree, Dedup!Resolved
  <2>. QED  BY <1>0, <2>1, <2>4, <2>5, <2>6
<1>. QED  BY <1>1, <1>2, <1>3, <1>4, <1>5 DEF Dedup!Execute

\* A factory settles: its entry opens its window, or gives up the key.
LEMMA PublishKeeps ==
  ASSUME EntryKept, NEW c \in Calls, Dedup!Settle(c)
  PROVE  EntryKept'
<1>. USE DEF EntryKept, Dedup!mapVars
<1>0. None \notin Nat /\ None \notin Calls /\ WindowMs \in Nat
  BY PipelineAssumption
\* Only the calls that share an entry hear of it.
<1>1. ASSUME NEW o \in {"ok", "failed", "aborted"}, Dedup!Deliver(c, o), role' = role,
             Dedup!Leading(c)
      PROVE  /\ outcome' \in [Calls -> {"none", "ok", "failed", "aborted"}]
             /\ outcome'[c] = o
             /\ \A d \in Calls : d # c /\ role[d] # "sharer" => outcome'[d] = outcome[d]
             /\ \A d \in Calls : outcome'[d] = "none" => outcome[d] = "none" /\ leader[d] # c
  BY <1>0, <1>1 DEF Dedup!Deliver, Led
<1>2. ASSUME NEW e \in {"resolved", "failed"}, NEW o \in {"ok", "failed", "aborted"},
             Dedup!Deliver(c, o), Dedup!Leading(c),
             entry' = [entry EXCEPT ![c] = e], UNCHANGED <<window, role, leader>>
      PROVE  /\ Led'
             /\ entry' \in [Calls -> {"none", "pending", "resolved", "failed"}]
             /\ outcome' \in [Calls -> {"none", "ok", "failed", "aborted"}]
  <2>1. /\ outcome' \in [Calls -> {"none", "ok", "failed", "aborted"}]
        /\ outcome'[c] = o
        /\ \A d \in Calls : d # c /\ role[d] # "sharer" => outcome'[d] = outcome[d]
        /\ \A d \in Calls : outcome'[d] = "none" => outcome[d] = "none" /\ leader[d] # c
    BY <1>1, <1>2
  <2>2. role[c] = "leader" /\ entry[c] = "pending"
    BY <1>2 DEF Led, Dedup!Leading
  <2>3. Led'
    BY <1>2, <2>1, <2>2 DEF Led, Dedup!Leading
  <2>. QED  BY <1>2, <2>1, <2>3
<1>3. CASE Dedup!SucceedOwner(c)
  <2>1. /\ Dedup!Leading(c) /\ owner = c /\ entry' = [entry EXCEPT ![c] = "resolved"]
        /\ Dedup!Deliver(c, "ok") /\ age' = 0 /\ UNCHANGED <<window, role, leader, dropped>>
    BY <1>3 DEF Dedup!SucceedOwner
  <2>2. entry[c] = "pending" /\ window[c] = WindowMs
    BY <2>1 DEF Led
  <2>3. timer = None
    BY <2>1, <2>2 DEF Agree, Dedup!Resolved
  <2>4. \/ owner' = None /\ timer' = None
        \/ owner' = c /\ timer' = WindowMs
    BY <1>3, <2>1, <2>2, <2>3 DEF Dedup!SucceedOwner
  <2>5. Owned'
    BY <2>1 DEF Owned
  <2>6. Agree'
    BY <1>0, <2>1, <2>4 DEF Agree, Dedup!Resolved
  <2>. QED  BY <1>0, <1>2, <2>1, <2>4, <2>5, <2>6
<1>4. CASE Dedup!SucceedDropped(c)
  <2>1. /\ Dedup!Leading(c) /\ owner # c /\ entry' = [entry EXCEPT ![c] = "resolved"]
        /\ Dedup!Deliver(c, "ok") /\ UNCHANGED <<owner, age, timer, window, role, leader, dropped>>
    BY <1>4 DEF Dedup!SucceedDropped
  <2>2. Owned'
    BY <2>1 DEF Owned
  <2>3. Agree'
    BY <1>0, <2>1 DEF Agree, Dedup!Resolved
  <2>. QED  BY <1>2, <2>1, <2>2, <2>3
<1>5. ASSUME NEW o \in {"failed", "aborted"}, Dedup!Fail(c, o)
      PROVE  EntryKept'
  <2>1. /\ Dedup!Leading(c) /\ entry' = [entry EXCEPT ![c] = "failed"]
        /\ Dedup!Deliver(c, o) /\ owner' = (IF owner = c THEN None ELSE owner)
        /\ timer' = None /\ UNCHANGED <<age, window, role, leader, dropped>>
    BY <1>5 DEF Dedup!Fail, Dedup!NoTimer
  <2>2. entry[c] = "pending"
    BY <2>1 DEF Led
  <2>3. Owned'
    BY <2>1 DEF Owned
  \* Nobody else owns the key while this entry is in flight, so no timer is lost.
  <2>4. ~dropped => owner = c
    BY <2>2 DEF Owned
  <2>5. Agree'
    BY <1>0, <2>1, <2>4 DEF Agree, Dedup!Resolved
  <2>. QED  BY <1>2, <2>1, <2>3, <2>5
<1>6. ASSUME NEW o \in {"ok", "failed", "aborted"}, Dedup!SettleAlone(c, o)
      PROVE  EntryKept'
  <2>1. /\ role[c] = "alone" /\ outcome' = [outcome EXCEPT ![c] = o]
        /\ UNCHANGED <<owner, age, timer, entry, window, role, leader, dropped>>
    BY <1>6 DEF Dedup!SettleAlone
  <2>2. Led' /\ Owned' /\ Agree'
    BY <2>1 DEF Led, Owned, Agree, Dedup!Leading, Dedup!Resolved
  <2>. QED  BY <2>1, <2>2
<1>. QED  BY <1>3, <1>4, <1>5, <1>6 DEF Dedup!Settle

\* What the map keeps, it keeps in each of its steps.
LEMMA EntryStep ==
  ASSUME EntryKept, [Dedup!Next]_(Dedup!dedupVars)
  PROVE  EntryKept'
<1>. USE DEF EntryKept, Dedup!mapVars, Dedup!callVars
<1>0. None \notin Nat /\ None \notin Calls /\ WindowMs \in Nat
  BY PipelineAssumption
<1>1. CASE Dedup!Invalidate
  <2>1. Led' /\ Owned' /\ Agree'
    BY <1>1 DEF Dedup!Invalidate, Dedup!NoTimer, Led, Owned, Agree, Dedup!Leading, Dedup!Resolved
  <2>. QED  BY <1>1, <2>1 DEF Dedup!Invalidate, Dedup!NoTimer
<1>2. CASE Dedup!Expire
  <2>1. /\ timer = 0 /\ owner' = None /\ timer' = None
        /\ UNCHANGED <<age, entry, window, role, leader, outcome, dropped>>
    BY <1>2 DEF Dedup!Expire, Dedup!TimerDue, Dedup!NoTimer
  <2>2. ~dropped => \A d \in Calls : entry[d] # "pending"
    BY <1>0, <2>1 DEF Owned, Agree, Dedup!Resolved
  <2>3. Led' /\ Owned' /\ Agree'
    BY <2>1, <2>2 DEF Led, Owned, Agree, Dedup!Leading, Dedup!Resolved
  <2>. QED  BY <2>1, <2>3
<1>3. CASE Dedup!Tick
  <2>1. /\ timer # 0 /\ age' = (IF age <= WindowMs THEN age + 1 ELSE age)
        /\ timer' = (IF timer \in 1..WindowMs THEN timer - 1 ELSE timer)
        /\ UNCHANGED <<owner, entry, window, role, leader, outcome, dropped>>
    BY <1>3, OneWindow DEF Dedup!Tick, Dedup!Loop, Dedup!TimerDue, Dedup!Older
  <2>2. timer # None => timer \in 1..WindowMs /\ age <= WindowMs /\ timer' = timer - 1
                         /\ age' = age + 1 /\ timer' \in Nat
    BY <1>0, <2>1 DEF Agree
  <2>3. timer = None => timer' = None
    BY <1>0, <2>1
  <2>4. Led' /\ Owned'
    BY <2>1 DEF Led, Owned, Dedup!Leading
  <2>5. Agree'
    BY <1>0, <2>1, <2>2, <2>3 DEF Agree, Dedup!Resolved
  <2>6. age' \in Nat /\ timer' \in Nat \cup {None}
    BY <1>0, <2>1, <2>2, <2>3
  <2>. QED  BY <2>1, <2>4, <2>5, <2>6
<1>4. CASE UNCHANGED Dedup!dedupVars
  BY <1>4 DEF Dedup!dedupVars, Led, Owned, Agree, Dedup!Leading, Dedup!Resolved
<1>5. ASSUME NEW c \in Calls, Dedup!Abort(c) PROVE FALSE
  BY <1>5 DEF Dedup!Abort
<1>. QED  BY <1>1, <1>2, <1>3, <1>4, <1>5, DecideKeeps, PublishKeeps DEF Dedup!Next

----------------------------------------------------------------------------
(* How the layers agree on where each call stands.                         *)

UnderWay == {"waiting"} \cup Limiter!Holding

\* The calls that have decided to ask for a permit have asked; one that waits or
\* holds a permit has no answer; one without an answer is in flight for the
\* breaker; and nothing but destroy() empties the map.
Stages ==
  /\ \A c \in Calls :
       /\ phase[c] = "idle" <=> role[c] \in {"new", "sharer"}
       /\ phase[c] \in UnderWay => outcome[c] = "none"
       /\ outcome[c] = "none" /\ role[c] # "new" => call[c] \in Breaker!InFlight
  /\ dropped => destroyed

PipelineInv == PermitsKept /\ SlotsKept /\ EntryKept /\ Stages

LEMMA InitKept == Init => PipelineInv
<1>. SUFFICES ASSUME Init PROVE PipelineInv
  OBVIOUS
<1>0. None \notin Nat /\ None \notin Calls /\ WindowMs \in Nat
  BY PipelineAssumption
<1>1. PermitsKept
  <2>1. Limiter!Holders = {}
    BY DEF Init, Limiter!Init, Limiter!Holders, Limiter!Holding
  <2>2. Cardinality(Limiter!Holders) = 0
    BY <2>1, FS_EmptySet
  <2>. QED  BY <2>2 DEF Init, Limiter!Init, PermitsKept, Limiter!Phases
<1>2. SlotsKept
  <2>1. Cardinality(Breaker!Probing) \in Nat
    BY ProbingFinite
  <2>. QED  BY <2>1 DEF Init, Breaker!Init, SlotsKept
<1>3. EntryKept
  BY <1>0 DEF Init, Dedup!Init, EntryKept, Led, Owned, Agree, Dedup!Leading, Dedup!Resolved
<1>4. Stages
  BY DEF Init, Limiter!Init, Dedup!Init, Breaker!Init, Stages, UnderWay, Limiter!Holding
<1>. QED  BY <1>1, <1>2, <1>3, <1>4 DEF PipelineInv

\* Once it has asked, a call never asks again, and what ends stays ended.
LEMMA LaterPhases ==
  ASSUME PermitsKept, NEW c \in Calls,
         \/ Limiter!Resume(c) \/ Limiter!Settle(c) \/ Limiter!AbortQueued(c)
         \/ Limiter!AbortElsewhere(c) \/ Limiter!Drain
  PROVE  \A d \in Calls : /\ phase'[d] \in UnderWay => phase[d] \in UnderWay
                          /\ phase[d] = "idle" <=> phase'[d] = "idle"
<1>. USE DEF PermitsKept, UnderWay, Limiter!Holding, Limiter!MoveTo
<1>1. CASE Limiter!Resume(c) \/ Limiter!AbortElsewhere(c)
  BY <1>1 DEF Limiter!Resume, Limiter!AbortElsewhere
<1>2. CASE Limiter!AbortQueued(c)
  BY <1>2 DEF Limiter!AbortQueued
<1>3. CASE Limiter!ReleaseUnused(c)
  BY <1>3 DEF Limiter!ReleaseUnused
<1>4. CASE Limiter!ReleaseTransfer(c)
  <2>1. /\ phase[c] = "running" /\ waiters # <<>>
        /\ phase' = [phase EXCEPT ![c] = "done", ![Head(waiters)] = "granted"]
    BY <1>4 DEF Limiter!ReleaseTransfer
  <2>2. Head(waiters) \in Calls /\ phase[Head(waiters)] = "waiting"
    BY <2>1
  <2>. QED  BY <2>1, <2>2
<1>5. CASE Limiter!Drain
  <2>1. \A d \in Calls : Limiter!InQueue(d) => phase[d] = "waiting"
    BY DEF Limiter!InQueue
  <2>. QED  BY <1>5, <2>1 DEF Limiter!Drain
<1>. QED  BY <1>1, <1>2, <1>3, <1>4, <1>5 DEF Limiter!Settle

\* The layers go on agreeing while a call goes down through them ...
LEMMA DownStages ==
  ASSUME PipelineInv, NEW c \in Calls, Send(c) \/ Share(c) \/ Request(c) \/ Run(c)
  PROVE  Stages'
<1>. USE DEF PipelineInv
<1>t. /\ phase \in [Calls -> Limiter!Phases]
      /\ call \in [Calls -> {"idle", "rejected"} \cup Breaker!InFlight]
      /\ role \in [Calls -> {"new", "leader", "sharer", "alone"}]
      /\ outcome \in [Calls -> {"none", "ok", "failed", "aborted"}]
      /\ \A d \in Calls : role[d] = "new" => outcome[d] = "none"
  BY DEF PermitsKept, SlotsKept, EntryKept, Led
<1>1. CASE Send(c)
  <2>1. /\ role[c] = "new" /\ \A d \in Calls : d # c => call'[d] = call[d]
        /\ UNCHANGED <<role, outcome, phase, dropped, destroyed>>
    BY <1>t, <1>1 DEF Send, map, permits, Breaker!Execute, Breaker!BeginAs, Breaker!StartClosed,
       Breaker!RejectOpen, Breaker!StartFirstProbe, Breaker!StartProbe, Breaker!RejectHalfOpen
  <2>. QED  BY <2>1 DEF Stages
<1>2. CASE Share(c)
  <2>1. /\ call[c] \in Breaker!InFlight /\ role[c] = "new" /\ role' = [role EXCEPT ![c] = "sharer"]
        /\ UNCHANGED <<call, phase, dropped, destroyed>>
        /\ \A d \in Calls : d # c => outcome'[d] = outcome[d]
    BY <1>t, <1>2 DEF Share, Admitted, Dedup!Join, Dedup!JoinWindow, Dedup!Becomes, circuit, permits
  <2>. QED  BY <1>t, <2>1 DEF Stages, UnderWay, Limiter!Holding
<1>3. CASE Request(c)
  <2>1. /\ call[c] \in Breaker!InFlight /\ role[c] = "new"
        /\ role' \in {[role EXCEPT ![c] = "leader"], [role EXCEPT ![c] = "alone"]}
        /\ UNCHANGED <<call, outcome, dropped, destroyed>>
    BY <1>3 DEF Request, Admitted, Dedup!Lead, Dedup!OwnRequest, Dedup!Bypass, Dedup!Becomes, circuit
  <2>2. \A d \in Calls : d # c => phase'[d] = phase[d]
    BY <1>t, <1>3 DEF Request, Limiter!Acquire, Limiter!AcquireAborted, Limiter!AcquireFree,
       Limiter!AcquireRefused, Limiter!AcquireQueued, Limiter!MoveTo
  <2>3. phase'[c] # "idle"
    BY <1>t, <1>3 DEF Request, Limiter!Acquire, Limiter!AcquireAborted, Limiter!AcquireFree,
       Limiter!AcquireRefused, Limiter!AcquireQueued, Limiter!MoveTo
  <2>. QED  BY <1>t, <2>1, <2>2, <2>3 DEF Stages
<1>4. CASE Run(c)
  <2>1. UNCHANGED <<call, role, outcome, dropped, destroyed>>
    BY <1>4 DEF Run, circuit, map
  <2>. QED  BY <1>4, <2>1, LaterPhases DEF Stages, Run
<1>. QED  BY <1>1, <1>2, <1>3, <1>4

\* ... and while it comes up again.
LEMMA UpStages ==
  ASSUME PipelineInv, NEW c \in Calls, EndAttempts(c) \/ Publish(c) \/ Answer(c) \/ Abort(c)
  PROVE  Stages'
<1>. USE DEF PipelineInv
<1>t. /\ phase \in [Calls -> Limiter!Phases]
      /\ call \in [Calls -> {"idle", "rejected"} \cup Breaker!InFlight]
      /\ outcome \in [Calls -> {"none", "ok", "failed", "aborted"}]
      /\ \A d \in Calls : leader[d] # None => role[d] = "sharer"
      /\ None \notin Calls
  BY PipelineAssumption DEF PermitsKept, SlotsKept, EntryKept, Led
<1>1. CASE EndAttempts(c) \/ Abort(c)
  <2>1. UNCHANGED <<call, role, outcome, dropped, destroyed>>
    BY <1>1 DEF EndAttempts, Abort, circuit, map
  <2>. QED  BY <1>1, <2>1, LaterPhases DEF Stages, EndAttempts, Abort
<1>2. CASE Publish(c)
  <2>1. phase[c] \notin UnderWay /\ UNCHANGED <<call, role, phase, dropped, destroyed>>
    BY <1>2 DEF Publish, Finished, Limiter!Settled, UnderWay, Limiter!Holding, circuit, permits,
       Dedup!SucceedOwner, Dedup!SucceedDropped, Dedup!Fail, Dedup!SettleAlone
  <2>2. \A d \in Calls : /\ outcome'[d] = "none" => outcome[d] = "none"
                         /\ d # c /\ role[d] # "sharer" => outcome'[d] = outcome[d]
    <3>1. ASSUME NEW o \in {"ok", "failed"}, Dedup!Deliver(c, o)
          PROVE  \A d \in Calls : /\ outcome'[d] = "none" => outcome[d] = "none"
                                  /\ d # c /\ role[d] # "sharer" => outcome'[d] = outcome[d]
      BY <1>t, <3>1 DEF Dedup!Deliver
    <3>2. ASSUME NEW o \in {"ok", "failed"}, Dedup!SettleAlone(c, o)
          PROVE  \A d \in Calls : /\ outcome'[d] = "none" => outcome[d] = "none"
                                  /\ d # c /\ role[d] # "sharer" => outcome'[d] = outcome[d]
      BY <1>t, <3>2 DEF Dedup!SettleAlone
    <3>. QED  BY <1>2, <3>1, <3>2 DEF Publish, Dedup!SucceedOwner, Dedup!SucceedDropped, Dedup!Fail
  <2>3. \A d \in Calls : phase[d] \in UnderWay => outcome'[d] = "none"
    BY <2>1, <2>2 DEF Stages, UnderWay, Limiter!Holding
  <2>. QED  BY <2>1, <2>2, <2>3 DEF Stages
<1>3. CASE Answer(c)
  <2>1. outcome[c] # "none" /\ UNCHANGED <<role, outcome, phase, dropped, destroyed>>
    BY <1>3 DEF Answer, map, permits
  <2>2. \A d \in Calls : d # c => call'[d] = call[d]
    BY <1>t, <1>3 DEF Answer, Breaker!Fail, Breaker!FailureWhileOpen, Breaker!FailureWhileHalfOpen,
       Breaker!FailureWhileClosed, Breaker!Succeed, Breaker!SuccessWhileOpen,
       Breaker!SuccessWhileHalfOpen, Breaker!SuccessWhileClosed, Breaker!SettleUncounted, Breaker!EndOf
  <2>. QED  BY <2>1, <2>2 DEF Stages
<1>. QED  BY <1>1, <1>2, <1>3

LEMMA PipelineStep == PipelineInv /\ [Next]_pipelineVars => PipelineInv'
<1>. SUFFICES ASSUME PipelineInv, [Next]_pipelineVars PROVE PipelineInv'
  OBVIOUS
<1>1. PermitsKept' /\ SlotsKept' /\ EntryKept'
  BY LimiterStep, BreakerStep, DedupStep, PermitsStep, SlotsStep, EntryStep DEF PipelineInv
<1>2. CASE Destroy
  <2>1. destroyed' = TRUE /\ UNCHANGED <<call, role, outcome>>
    BY <1>2 DEF Destroy, circuit, map, Dedup!Invalidate, Dedup!callVars
  <2>2. \A d \in Calls : /\ phase'[d] \in UnderWay => phase[d] \in UnderWay
                         /\ phase[d] = "idle" <=> phase'[d] = "idle"
    <3>1. CASE waiters = <<>>
      BY <1>2, <3>1 DEF Destroy, permits
    <3>2. CASE waiters # <<>>
      BY <1>2, <3>2, LaterPhases DEF Destroy, PipelineInv
    <3>. QED  BY <3>1, <3>2
  <2>3. Stages'
    BY <2>1, <2>2 DEF PipelineInv, Stages
  <2>. QED  BY <1>1, <2>3 DEF PipelineInv
<1>3. CASE Tick
  <2>1. UNCHANGED <<call, role, outcome, phase, dropped, destroyed>>
    BY <1>3 DEF Tick, Breaker!Tick, Dedup!Tick, Dedup!Expire, Dedup!callVars, map, permits, circuit
  <2>. QED  BY <1>1, <2>1 DEF PipelineInv, Stages
<1>4. CASE UNCHANGED pipelineVars
  BY <1>1, <1>4 DEF PipelineInv, Stages, pipelineVars, circuit, map, permits
<1>. QED  BY <1>1, <1>2, <1>3, <1>4, DownStages, UpStages DEF Next, Progress, PipelineInv

LEMMA PipelineKept == Spec => []PipelineInv
  BY InitKept, PipelineStep, PTL DEF Spec

----------------------------------------------------------------------------
\* Coalesced calls cost one permit or one place in the queue between them
\* (client.ts): each that is under way leads an entry in flight, and all of these
\* own the one key.
LEMMA OneUnderWay == PipelineInv => OneRequestPerKey
<1>. SUFFICES ASSUME PipelineInv, ~destroyed
     PROVE Cardinality({c \in Calls : role[c] # "alone" /\ phase[c] \in {"waiting"} \cup Limiter!Holding}) <= 1
  BY DEF OneRequestPerKey
<1>. DEFINE S == {c \in Calls : role[c] # "alone" /\ phase[c] \in {"waiting"} \cup Limiter!Holding}
<1>1. \A c \in S : role[c] = "leader" /\ outcome[c] = "none"
  BY DEF PipelineInv, Stages, EntryKept, UnderWay, Limiter!Holding
<1>2. \A c \in S : entry[c] = "pending"
  BY <1>1 DEF PipelineInv, EntryKept, Led, Dedup!Leading
<1>3. \A c \in S : owner = c
  BY <1>2 DEF PipelineInv, Stages, EntryKept, Owned
<1>4. S = {} \/ S = {owner}
  BY <1>3
<1>5. Cardinality(S) = 0 \/ Cardinality(S) = 1
  BY <1>4, FS_EmptySet, FS_Singleton
<1>. QED  BY <1>5

\* The requests that ask for the same thing are one request for the limiter,
\* whoever comes, aborts or fails, until the client is destroyed.
THEOREM OneRequestPerKeyCorrect == Spec => []OneRequestPerKey
  BY PipelineKept, OneUnderWay, PTL

\* When no call is unanswered none is under way, so no permit is held and nobody
\* waits, no probe holds a slot, and the key is free or has its timer.
LEMMA AllReturned == PipelineInv => NothingLeftBehind
<1>. SUFFICES ASSUME PipelineInv, \A c \in Calls : call[c] \notin Breaker!InFlight
     PROVE /\ active = 0 /\ waiters = <<>> /\ probes = 0
           /\ owner = None \/ timer # None \/ dropped
  BY DEF NothingLeftBehind
<1>1. \A c \in Calls : role[c] = "new" \/ outcome[c] # "none"
  BY DEF PipelineInv, Stages
<1>2. \A c \in Calls : phase[c] \notin UnderWay
  BY <1>1 DEF PipelineInv, Stages, UnderWay, Limiter!Holding
<1>3. active = 0
  <2>1. Limiter!Holders = {}
    BY <1>2 DEF Limiter!Holders, UnderWay
  <2>. QED  BY <2>1, FS_EmptySet DEF PipelineInv, PermitsKept
<1>4. waiters = <<>>
  <2>1. waiters # <<>> => 1 \in DOMAIN waiters /\ waiters[1] \in Calls
    BY DEF PipelineInv, PermitsKept
  <2>2. waiters # <<>> => phase[waiters[1]] = "waiting"
    BY <2>1 DEF PipelineInv, PermitsKept
  <2>. QED  BY <1>2, <2>1, <2>2 DEF UnderWay
<1>5. probes = 0
  <2>1. Breaker!Probing = {}
    BY DEF Breaker!Probing, Breaker!InFlight
  <2>2. Cardinality(Breaker!Probing) = 0
    BY <2>1, FS_EmptySet
  <2>. QED  BY <2>2 DEF PipelineInv, SlotsKept
<1>6. \A c \in Calls : entry[c] # "pending"
  BY <1>1 DEF PipelineInv, EntryKept, Led, Dedup!Leading
<1>7. owner = None \/ timer # None \/ dropped
  BY <1>6 DEF PipelineInv, EntryKept, Agree, Dedup!Resolved
<1>. QED  BY <1>3, <1>4, <1>5, <1>7

\* After the last answer no layer keeps anything of a call: each of them gives
\* back, on every path, what it took on the way down.
THEOREM NothingLeftBehindCorrect == Spec => []NothingLeftBehind
  BY PipelineKept, AllReturned, PTL

----------------------------------------------------------------------------
\* A call that waits stands in the queue behind a holder; a call that shares
\* waits for one that leads, which has asked for its permit.
LEMMA SomeoneMoves ==
  ASSUME PipelineInv, NEW c \in Calls, call[c] \in Breaker!InFlight
  PROVE  \E d \in Calls : CanMove(d)
\* A call that leads, or is on its own, and has no answer.
<1>1. ASSUME NEW d \in Calls, role[d] \in {"leader", "alone"}, outcome[d] = "none"
      PROVE  \E e \in Calls : CanMove(e)
  <2>1. phase[d] \in {"waiting"} \cup Limiter!Holding \cup Limiter!Settled
    BY <1>1 DEF PipelineInv, PermitsKept, Stages, Limiter!Phases
  <2>2. CASE phase[d] = "waiting"
    <3>1. waiters # <<>>
      BY <2>2 DEF PipelineInv, PermitsKept, Limiter!InQueue
    <3>2. Limiter!Holders # {}
      BY <3>1, FS_EmptySet DEF PipelineInv, PermitsKept
    <3>. QED  BY <3>2 DEF CanMove, Limiter!Holders
  <2>3. CASE phase[d] \in Limiter!Holding \cup Limiter!Settled
    BY <1>1, <2>3 DEF CanMove, Finished
  <2>. QED  BY <2>1, <2>2, <2>3
<1>2. CASE role[c] = "new" \/ outcome[c] # "none"
  BY <1>2 DEF CanMove
<1>3. CASE role[c] = "sharer" /\ outcome[c] = "none"
  <2>1. leader[c] \in Calls /\ Dedup!Leading(leader[c])
    BY <1>3 DEF PipelineInv, EntryKept, Led
  <2>. QED  BY <1>1, <2>1 DEF Dedup!Leading
<1>4. role[c] \in {"new", "leader", "sharer", "alone"}
  BY DEF PipelineInv, EntryKept
<1>. QED  BY <1>1, <1>2, <1>3, <1>4

\* No layer waits for one that waits for it: the breaker for the map, the map for
\* the limiter, the limiter for a call that the map makes wait.  While a call is
\* unanswered some call has what it needs for its next step.
THEOREM SomeoneAlwaysMoves ==
  Spec => []((\E c \in Calls : call[c] \in Breaker!InFlight) => \E d \in Calls : CanMove(d))
<1>1. PipelineInv => ((\E c \in Calls : call[c] \in Breaker!InFlight) => \E d \in Calls : CanMove(d))
  BY SomeoneMoves
<1>. QED  BY <1>1, PipelineKept, PTL
=============================================================================
