------------------------ MODULE CircuitBreakerProofs ------------------------
(***************************************************************************)
(* Proofs about CircuitBreaker, for any number of callers, any thresholds, *)
(* any window and any probe limit.                                         *)
(***************************************************************************)
EXTENDS CircuitBreaker, FiniteSetTheorems, TLAPS

USE BreakerAssumption

\* While the circuit is closed, the failures in a row are the last results of the
\* window: none of them has been pushed out of it.
Trailing ==
  state = "CLOSED" /\ WindowSize > 0 =>
    /\ fails <= Len(window)
    /\ \A i \in DOMAIN window : i > Len(window) - fails => window[i] = "failed"

IInv == TypeOK /\ ClosedBelowThreshold /\ NeverBlind /\ Trailing /\ NoPhantomProbe

----------------------------------------------------------------------------
\* The window.

LEMMA WindowSizeFacts ==
  WindowSize \in Nat /\ (WindowSize > 0 => WindowSize >= FailureThreshold)
  BY DEF WindowSize

LEMMA FailuresFinite ==
  ASSUME NEW w \in Seq(Results)
  PROVE  /\ IsFiniteSet({i \in DOMAIN w : w[i] = "failed"})
         /\ Failures(w) \in Nat
  <1>1. {i \in DOMAIN w : w[i] = "failed"} \subseteq 1..Len(w) /\ 1 \in Int /\ Len(w) \in Int
    OBVIOUS
  <1>2. IsFiniteSet(1..Len(w))
    BY <1>1, FS_Interval
  <1> QED
    BY <1>1, <1>2, FS_Subset, FS_CardinalityType DEF Failures

\* An empty window holds no failure.
LEMMA EmptyWindow == Failures(<<>>) = 0
  <1>1. {i \in DOMAIN <<>> : (<<>>)[i] = "failed"} = {}
    OBVIOUS
  <1> QED
    BY <1>1, FS_EmptySet DEF Failures

\* Sliding keeps a window a window, and shows where its entries come from.
LEMMA SlideFacts ==
  ASSUME NEW w \in Seq(Results), Len(w) <= WindowSize, NEW result \in Results
  PROVE  /\ Slide(w, result) \in Seq(Results)
         /\ Len(Slide(w, result)) <= WindowSize
         /\ WindowSize = 0 => Slide(w, result) = w
         /\ Len(w) < WindowSize =>
              /\ Len(Slide(w, result)) = Len(w) + 1
              /\ \A i \in 1..Len(w) : Slide(w, result)[i] = w[i]
              /\ Slide(w, result)[Len(w) + 1] = result
         /\ WindowSize > 0 /\ Len(w) = WindowSize =>
              /\ Len(Slide(w, result)) = Len(w)
              /\ \A i \in 1..(Len(w) - 1) : Slide(w, result)[i] = w[i + 1]
              /\ Slide(w, result)[Len(w)] = result
  <1> USE WindowSizeFacts
  <1>1. CASE WindowSize = 0
    BY <1>1 DEF Slide
  <1>2. CASE Len(w) < WindowSize
    <2>1. Slide(w, result) = Append(w, result)
      BY <1>2 DEF Slide
    <2> QED
      BY <1>2, <2>1
  <1>3. CASE WindowSize > 0 /\ Len(w) = WindowSize
    <2>1. Slide(w, result) = Append(Tail(w), result)
      BY <1>3 DEF Slide
    <2>2. /\ Tail(w) \in Seq(Results)
          /\ Len(Tail(w)) = Len(w) - 1
          /\ \A i \in 1..(Len(w) - 1) : Tail(w)[i] = w[i + 1]
      BY <1>3
    <2> QED
      BY <1>3, <2>1, <2>2
  <1> QED
    BY <1>1, <1>2, <1>3

\* A success pushed into the window adds no failure to it.
LEMMA SlideSuccess ==
  ASSUME NEW w \in Seq(Results), Len(w) <= WindowSize
  PROVE  Failures(Slide(w, "ok")) <= Failures(w)
  <1> DEFINE v == Slide(w, "ok")
             Fw == {i \in DOMAIN w : w[i] = "failed"}
             Fv == {i \in DOMAIN v : v[i] = "failed"}
  <1> USE WindowSizeFacts
  <1>1. v \in Seq(Results) /\ IsFiniteSet(Fw) /\ Cardinality(Fw) \in Nat /\ Len(w) \in Nat
    <2>1. v \in Seq(Results)
      BY SlideFacts DEF Results
    <2>2. IsFiniteSet(Fw)
      BY FailuresFinite
    <2> QED
      BY <2>1, <2>2, FS_CardinalityType
  <1>2. Cardinality(Fv) <= Cardinality(Fw)
    <2>1. CASE WindowSize = 0
      <3>1. v = w
        BY <2>1 DEF Slide
      <3>2. Fv = Fw
        BY <3>1
      <3> HIDE DEF Fv, Fw
      <3> QED
        BY <3>2, <1>1
    <2>2. CASE Len(w) < WindowSize
      <3>1. /\ Len(v) = Len(w) + 1
            /\ \A i \in 1..Len(w) : v[i] = w[i]
            /\ v[Len(w) + 1] = "ok"
        BY <2>2, SlideFacts DEF Results
      <3> HIDE DEF v
      <3>2. Fv \subseteq Fw
        BY <3>1, <1>1
      <3> QED
        BY <3>2, <1>1, FS_Subset
    <2>3. CASE WindowSize > 0 /\ Len(w) = WindowSize
      <3>1. /\ Len(v) = Len(w)
            /\ \A i \in 1..(Len(w) - 1) : v[i] = w[i + 1]
            /\ v[Len(w)] = "ok"
        BY <2>3, SlideFacts DEF Results
      <3> DEFINE f == [i \in Fv |-> i + 1]
      <3> HIDE DEF v
      <3>2. \A i \in Fv : i \in 1..(Len(w) - 1) /\ i + 1 \in Fw
        BY <3>1, <1>1
      <3>3. f \in Injection(Fv, Fw)
        <4>1. f \in [Fv -> Fw]
          BY <3>2
        <4>2. \A i, j \in Fv : f[i] = f[j] => i = j
          BY <3>2
        <4> QED
          BY <4>1, <4>2 DEF Injection, IsInjective
      <3> QED
        BY <3>3, <1>1, FS_Injection
    <2> QED
      BY <2>1, <2>2, <2>3, <1>1
  <1> QED
    BY <1>2 DEF Failures

\* A failure pushed onto a run of failures lengthens the run, and the window
\* holds at least the failures of the run.
LEMMA SlideFailure ==
  ASSUME NEW w \in Seq(Results), Len(w) <= WindowSize, WindowSize > 0,
         NEW n \in Nat, n < FailureThreshold, n <= Len(w),
         \A i \in DOMAIN w : i > Len(w) - n => w[i] = "failed"
  PROVE  LET v == Slide(w, "failed") IN
         /\ n + 1 <= Len(v)
         /\ \A i \in DOMAIN v : i > Len(v) - (n + 1) => v[i] = "failed"
         /\ Failures(v) >= n + 1
  <1> DEFINE v == Slide(w, "failed")
             Fv == {i \in DOMAIN v : v[i] = "failed"}
             run == (Len(v) - n)..Len(v)
  <1> USE WindowSizeFacts
  <1>1. v \in Seq(Results) /\ Len(v) \in Nat /\ Len(w) \in Nat
    <2>1. v \in Seq(Results)
      BY SlideFacts DEF Results
    <2> HIDE DEF v
    <2> QED
      BY <2>1
  <1>2. n + 1 <= Len(v) /\ \A i \in DOMAIN v : i > Len(v) - (n + 1) => v[i] = "failed"
    <2>1. CASE Len(w) < WindowSize
      <3>1. /\ Len(v) = Len(w) + 1
            /\ \A i \in 1..Len(w) : v[i] = w[i]
            /\ v[Len(w) + 1] = "failed"
        BY <2>1, SlideFacts DEF Results
      <3> HIDE DEF v
      <3> QED
        BY <3>1, <1>1
    <2>2. CASE Len(w) = WindowSize
      <3>1. /\ Len(v) = Len(w)
            /\ \A i \in 1..(Len(w) - 1) : v[i] = w[i + 1]
            /\ v[Len(w)] = "failed"
        BY <2>2, SlideFacts DEF Results
      <3>2. n + 1 <= Len(w)
        BY <2>2
      <3> HIDE DEF v
      <3>3. ASSUME NEW i \in DOMAIN v, i > Len(v) - (n + 1), i # Len(w)
            PROVE  v[i] = "failed"
        <4>1. i \in 1..(Len(w) - 1) /\ i + 1 \in DOMAIN w /\ i + 1 > Len(w) - n
          BY <3>1, <3>3, <1>1
        <4> QED
          BY <3>1, <4>1
      <3> QED
        BY <3>1, <3>2, <3>3, <1>1
    <2> QED
      BY <2>1, <2>2, <1>1
  <1>3. Failures(v) >= n + 1
    <2> HIDE DEF v
    <2>1. run \subseteq Fv
      BY <1>1, <1>2
    <2>2. IsFiniteSet(Fv)
      BY <1>1, FailuresFinite
    <2>3. Cardinality(run) = n + 1
      <3>1. Len(v) - n \in Int /\ Len(v) \in Int /\ ~(Len(v) - n > Len(v))
        BY <1>1
      <3>2. Cardinality(run) = Len(v) - (Len(v) - n) + 1
        BY <3>1, FS_Interval
      <3> QED
        BY <3>2, <1>1
    <2>4. Cardinality(run) <= Cardinality(Fv)
      BY <2>1, <2>2, FS_Subset
    <2>5. Cardinality(Fv) \in Nat
      BY <2>2, FS_CardinalityType
    <2> QED
      BY <2>3, <2>4, <2>5 DEF Failures
  <1> QED
    BY <1>2, <1>3

----------------------------------------------------------------------------
\* The probe slots.

LEMMA ProbingFinite == IsFiniteSet(Probing) /\ Cardinality(Probing) \in Nat
  <1>1. Probing \subseteq Calls
    BY DEF Probing
  <1> QED
    BY <1>1, FS_Subset, FS_CardinalityType

\* A settling call returns the slot it held, in any state of the circuit, and
\* leaves no slot without a probe.
LEMMA SlotReturned ==
  ASSUME TypeOK, NoPhantomProbe, NEW c \in Calls, EndOf(c)
  PROVE  /\ SlotsAfter(c) \in 0..HalfOpenConcurrency
         /\ SlotsAfter(c) <= Cardinality(Probing')
  <1> USE DEF TypeOK, NoPhantomProbe, EndOf, InFlight
  <1>1. SlotsAfter(c) \in 0..HalfOpenConcurrency
    BY DEF SlotsAfter
  <1>2. CASE call[c] = "probing"
    <2>1. Probing' = Probing \ {c} /\ c \in Probing
      BY <1>2 DEF Probing
    <2>2. Cardinality(Probing \ {c}) = Cardinality(Probing) - 1
      BY <2>1, ProbingFinite, FS_RemoveElement
    <2>3. IsFiniteSet(Probing \ {c})
      BY ProbingFinite, FS_RemoveElement
    <2>4. Cardinality(Probing \ {c}) \in Nat
      BY <2>3, FS_CardinalityType
    <2> QED
      BY <1>1, <1>2, <2>1, <2>2, <2>4, ProbingFinite DEF SlotsAfter
  <1>3. CASE call[c] # "probing"
    <2>1. Probing' = Probing
      BY <1>3 DEF Probing
    <2> QED
      BY <1>1, <1>3, <2>1, ProbingFinite DEF SlotsAfter
  <1> QED
    BY <1>2, <1>3

\* A slot is taken together with the probe that fills it.
LEMMA SlotTaken ==
  ASSUME TypeOK, NEW c \in Calls, BeginAs(c, "probing")
  PROVE  Cardinality(Probing') = Cardinality(Probing) + 1
  <1>1. Probing' = Probing \cup {c} /\ c \notin Probing
    BY DEF TypeOK, BeginAs, Probing
  <1> QED
    BY <1>1, ProbingFinite, FS_AddElement

\* The probes are those of before when no call starts or settles as one.
LEMMA SameProbes ==
  ASSUME \A c \in Calls : call'[c] = "probing" <=> call[c] = "probing"
  PROVE  Probing' = Probing
  BY DEF Probing

LEMMA ProbingFiniteNext == Cardinality(Probing') \in Nat
  <1>1. Probing' \subseteq Calls
    BY DEF Probing
  <1> QED
    BY <1>1, FS_Subset, FS_CardinalityType

----------------------------------------------------------------------------
\* One lemma per group of handlers.

LEMMA InitEstablishes == Init => IInv
  <1> SUFFICES ASSUME Init PROVE IInv
    OBVIOUS
  <1>1. TypeOK
    <2>1. window \in Seq(Results) /\ Len(window) <= WindowSize
      BY WindowSizeFacts DEF Init
    <2>2. call \in [Calls -> {"idle", "rejected"} \cup InFlight]
      BY DEF Init
    <2>3. healthy \in BOOLEAN
      BY DEF Init
    <2>4. /\ fails \in 0..FailureThreshold
          /\ succ \in 0..(SuccessThreshold - 1)
          /\ probes \in 0..HalfOpenConcurrency
          /\ trips \in 0..MaxTrips
      BY DEF Init
    <2> QED
      BY <2>1, <2>2, <2>3, <2>4 DEF Init, TypeOK
  <1>2. ClosedBelowThreshold
    BY EmptyWindow DEF Init, ClosedBelowThreshold
  <1>3. NeverBlind /\ Trailing
    BY DEF Init, NeverBlind, Trailing
  <1>4. NoPhantomProbe
    BY ProbingFinite DEF Init, NoPhantomProbe
  <1> QED
    BY <1>1, <1>2, <1>3, <1>4 DEF IInv

\* A circuit that has just closed, whoever closed it.
LEMMA CloseKeeps ==
  ASSUME TypeOK, Close, call' \in [Calls -> {"idle", "rejected"} \cup InFlight],
         healthy' \in BOOLEAN, trips' \in 0..MaxTrips
  PROVE  IInv'
  <1>1. TypeOK'
    BY WindowSizeFacts DEF Close, TypeOK
  <1>2. ClosedBelowThreshold'
    BY EmptyWindow DEF Close, ClosedBelowThreshold
  <1>3. (NeverBlind /\ Trailing)'
    BY DEF Close, NeverBlind, Trailing
  <1>4. NoPhantomProbe'
    BY ProbingFiniteNext DEF Close, NoPhantomProbe
  <1> QED
    BY <1>1, <1>2, <1>3, <1>4 DEF IInv

\* A call that starts in a closed circuit, a rejected call, its caller's next
\* call and the recovery of the service leave the circuit as it is.
LEMMA CircuitUntouched ==
  ASSUME IInv, UNCHANGED circuit,
         call' \in [Calls -> {"idle", "rejected"} \cup InFlight],
         \A c \in Calls : call'[c] = "probing" <=> call[c] = "probing",
         healthy' \in BOOLEAN, trips' \in 0..MaxTrips
  PROVE  IInv'
  BY SameProbes DEF IInv, TypeOK, circuit, ClosedBelowThreshold, NeverBlind, Trailing,
     NoPhantomProbe

\* A call that starts as a probe.
LEMMA StartProbeKeeps ==
  ASSUME IInv, NEW c \in Calls, StartFirstProbe(c) \/ StartProbe(c)
  PROVE  IInv'
  <1> USE DEF IInv, TypeOK
  <1>1. Cardinality(Probing') = Cardinality(Probing) + 1
    BY SlotTaken DEF StartFirstProbe, StartProbe
  <1>2. TypeOK'
    BY DEF StartFirstProbe, StartProbe, BeginAs, InFlight, TimedOut
  <1>3. (ClosedBelowThreshold /\ NeverBlind /\ Trailing)'
    BY DEF StartFirstProbe, StartProbe, ClosedBelowThreshold, NeverBlind, Trailing
  <1>4. NoPhantomProbe'
    BY <1>1, ProbingFinite DEF StartFirstProbe, StartProbe, NoPhantomProbe
  <1> QED
    BY <1>2, <1>3, <1>4

\* A result that arrives while the circuit is not closed and does not close it.
LEMMA LateResultKeeps ==
  ASSUME IInv, NEW c \in Calls,
         \/ SuccessWhileOpen(c) \/ FailureWhileOpen(c) \/ FailureWhileHalfOpen(c)
         \/ SuccessWhileHalfOpen(c) /\ succ + 1 < SuccessThreshold
  PROVE  IInv'
  <1> USE DEF IInv, TypeOK
  <1>1. EndOf(c) /\ probes' = SlotsAfter(c) /\ state' # "CLOSED"
    BY DEF SuccessWhileOpen, FailureWhileOpen, FailureWhileHalfOpen, SuccessWhileHalfOpen, Open
  <1>2. SlotsAfter(c) \in 0..HalfOpenConcurrency /\ SlotsAfter(c) <= Cardinality(Probing')
    BY <1>1, SlotReturned
  <1>3. TypeOK'
    BY <1>1, <1>2 DEF SuccessWhileOpen, FailureWhileOpen, FailureWhileHalfOpen,
       SuccessWhileHalfOpen, Open, EndOf, MoreFails
  <1>4. (ClosedBelowThreshold /\ NeverBlind /\ Trailing)'
    BY <1>1 DEF ClosedBelowThreshold, NeverBlind, Trailing
  <1>5. NoPhantomProbe'
    BY <1>1, <1>2 DEF NoPhantomProbe
  <1> QED
    BY <1>3, <1>4, <1>5

\* The success that closes the circuit.
LEMMA ClosingKeeps ==
  ASSUME IInv, NEW c \in Calls, SuccessWhileHalfOpen(c), succ + 1 >= SuccessThreshold
  PROVE  IInv'
  BY CloseKeeps DEF IInv, SuccessWhileHalfOpen, EndOf, TypeOK

\* A success of a closed circuit.
LEMMA SuccessClosedKeeps ==
  ASSUME IInv, NEW c \in Calls, SuccessWhileClosed(c)
  PROVE  IInv'
  <1> USE DEF IInv, TypeOK, SuccessWhileClosed
  <1>1. SlotsAfter(c) \in 0..HalfOpenConcurrency /\ SlotsAfter(c) <= Cardinality(Probing')
    BY SlotReturned
  <1>2. window' \in Seq(Results) /\ Len(window') <= WindowSize
    BY SlideFacts DEF Results
  <1>3. TypeOK'
    BY <1>1, <1>2 DEF EndOf
  <1>4. ClosedBelowThreshold'
    <2>1. Failures(window') <= Failures(window)
      BY SlideSuccess
    <2>2. Failures(window') \in Nat /\ Failures(window) \in Nat
      BY <1>2, FailuresFinite
    <2> QED
      BY <2>1, <2>2 DEF ClosedBelowThreshold
  <1>5. (NeverBlind /\ Trailing)'
    BY <1>2 DEF NeverBlind, Trailing
  <1>6. NoPhantomProbe'
    BY <1>1 DEF NoPhantomProbe
  <1> QED
    BY <1>3, <1>4, <1>5, <1>6

\* A failure of a closed circuit, which may open it.
LEMMA FailureClosedKeeps ==
  ASSUME IInv, NEW c \in Calls, FailureWhileClosed(c)
  PROVE  IInv'
  <1> USE DEF IInv, TypeOK, FailureWhileClosed
  <1>1. SlotsAfter(c) \in 0..HalfOpenConcurrency /\ SlotsAfter(c) <= Cardinality(Probing')
    BY SlotReturned
  <1>2. window' \in Seq(Results) /\ Len(window') <= WindowSize
    BY SlideFacts DEF Results
  <1>3. fails' = fails + 1 /\ fails + 1 <= FailureThreshold
    BY DEF NeverBlind, MoreFails
  <1>4. TypeOK'
    BY <1>1, <1>2, <1>3 DEF EndOf, Open
  <1>5. NoPhantomProbe'
    BY <1>1 DEF NoPhantomProbe
  <1>6. CASE TooManyFailures
    BY <1>4, <1>5, <1>6 DEF Open, ClosedBelowThreshold, NeverBlind, Trailing
  <1>7. CASE ~TooManyFailures
    <2>1. CASE WindowSize = 0
      <3>1. window' = window
        BY <2>1, SlideFacts DEF Results
      <3> QED
        BY <1>3, <1>4, <1>5, <1>7, <2>1, <3>1
        DEF TooManyFailures, ClosedBelowThreshold, NeverBlind, Trailing, MoreFails
    <2>2. CASE WindowSize > 0
      <3>1. Failures(window') \in Nat /\ Failures(window') < FailureThreshold
        <4>1. Failures(window') \in Nat
          BY <1>2, FailuresFinite
        <4> QED
          BY <4>1, <1>7, <2>2 DEF TooManyFailures
      <3>2. /\ fails <= Len(window) /\ fails < FailureThreshold
            /\ \A i \in DOMAIN window : i > Len(window) - fails => window[i] = "failed"
        BY <2>2 DEF Trailing, NeverBlind
      <3>3. /\ fails + 1 <= Len(window')
            /\ \A i \in DOMAIN window' : i > Len(window') - (fails + 1) => window'[i] = "failed"
            /\ Failures(window') >= fails + 1
        BY <2>2, <3>2, SlideFailure
      <3> QED
        BY <1>3, <1>4, <1>5, <3>1, <3>3 DEF ClosedBelowThreshold, NeverBlind, Trailing
    <2> QED
      BY <2>1, <2>2, WindowSizeFacts
  <1> QED
    BY <1>6, <1>7

\* A result the filter does not count.
LEMMA UncountedKeeps ==
  ASSUME IInv, NEW c \in Calls, SettleUncounted(c)
  PROVE  IInv'
  <1> USE DEF IInv, TypeOK, SettleUncounted
  <1>1. SlotsAfter(c) \in 0..HalfOpenConcurrency /\ SlotsAfter(c) <= Cardinality(Probing')
    BY SlotReturned
  <1>2. TypeOK'
    BY <1>1 DEF EndOf
  <1> QED
    BY <1>1, <1>2 DEF ClosedBelowThreshold, NeverBlind, Trailing, NoPhantomProbe

\* The operator's trip() and the passing of time.
LEMMA TripTickKeeps ==
  ASSUME IInv, Trip \/ Tick
  PROVE  IInv'
  <1>1. Probing' = Probing
    BY SameProbes DEF Trip, Tick
  <1>2. TypeOK'
    BY DEF IInv, TypeOK, Trip, Tick, Open
  <1> QED
    BY <1>1, <1>2 DEF IInv, Trip, Tick, Open, ClosedBelowThreshold, NeverBlind, Trailing,
       NoPhantomProbe

----------------------------------------------------------------------------
\* The invariant is inductive.
THEOREM Inductive == IInv /\ [Next]_breakerVars => IInv'
  <1> SUFFICES ASSUME IInv, [Next]_breakerVars PROVE IInv'
    OBVIOUS
  <1>1. ASSUME NEW c \in Calls, Execute(c) \/ Again(c) PROVE IInv'
    <2>1. CASE StartFirstProbe(c) \/ StartProbe(c)
      BY <2>1, StartProbeKeeps
    <2>2. CASE StartClosed(c) \/ RejectOpen(c) \/ RejectHalfOpen(c) \/ Again(c)
      BY <2>2, CircuitUntouched DEF IInv, TypeOK, StartClosed, RejectOpen, RejectHalfOpen,
         Again, BeginAs, InFlight
    <2> QED
      BY <1>1, <2>1, <2>2 DEF Execute
  <1>2. ASSUME NEW c \in Calls, Settle(c) PROVE IInv'
    <2>1. CASE Succeed(c)
      <3>1. succ + 1 < SuccessThreshold \/ succ + 1 >= SuccessThreshold
        BY DEF IInv, TypeOK
      <3> QED
        BY <2>1, <3>1, LateResultKeeps, ClosingKeeps, SuccessClosedKeeps DEF Succeed
    <2>2. CASE Fail(c)
      BY <2>2, LateResultKeeps, FailureClosedKeeps DEF Fail
    <2> QED
      BY <1>2, <2>1, <2>2, UncountedKeeps DEF Settle
  <1>3. CASE Trip \/ Tick
    BY <1>3, TripTickKeeps
  <1>4. CASE Reset
    BY <1>4, CloseKeeps DEF Reset, IInv, TypeOK
  <1>5. CASE Recover
    BY <1>5, CircuitUntouched DEF Recover, IInv, TypeOK
  <1>6. CASE UNCHANGED breakerVars
    BY <1>6, CircuitUntouched DEF breakerVars, circuit, IInv, TypeOK
  <1> QED
    BY <1>1, <1>2, <1>3, <1>4, <1>5, <1>6 DEF Next

\* A closed circuit never holds a threshold of failures in its window.
THEOREM AlwaysBelowThreshold == Spec => []ClosedBelowThreshold
  <1>1. IInv => ClosedBelowThreshold
    BY DEF IInv
  <1> QED
    BY <1>1, InitEstablishes, Inductive, PTL DEF Spec

\* A closed circuit has never seen a threshold of failures in a row, whatever
\* window was configured.
THEOREM AlwaysSighted == Spec => []NeverBlind
  <1>1. IInv => NeverBlind
    BY DEF IInv
  <1> QED
    BY <1>1, InitEstablishes, Inductive, PTL DEF Spec

\* A closed circuit is below its threshold by either count.
THEOREM AlwaysOpensInTime == Spec => []OpensInTime
  BY AlwaysBelowThreshold, AlwaysSighted, PTL DEF OpensInTime

\* A probe slot is never occupied by a call that is no longer in flight.
THEOREM AlwaysRealProbes == Spec => []NoPhantomProbe
  <1>1. IInv => NoPhantomProbe
    BY DEF IInv
  <1> QED
    BY <1>1, InitEstablishes, Inductive, PTL DEF Spec

\* The variables keep their types and sizes.
THEOREM TypeCorrect == Spec => []TypeOK
  <1>1. IInv => TypeOK
    BY DEF IInv
  <1> QED
    BY <1>1, InitEstablishes, Inductive, PTL DEF Spec

\* An opening lasts its timeout, whatever settles late, unless reset by hand.
THEOREM OpeningsLast == Spec => OneOpening
  <1> DEFINE lasts ==
        state = "OPEN" =>
          \/ state' = "OPEN" /\ openFor' >= openFor
          \/ state' = "HALF_OPEN" /\ openFor = ResetTimeout
          \/ state' = "CLOSED" /\ UNCHANGED call
  <1>1. ASSUME IInv, [Next]_breakerVars PROVE lasts
    <2> SUFFICES ASSUME state = "OPEN"
                 PROVE  \/ state' = "OPEN" /\ openFor' >= openFor
                        \/ state' = "HALF_OPEN" /\ openFor = ResetTimeout
                        \/ state' = "CLOSED" /\ UNCHANGED call
      OBVIOUS
    <2>1. openFor \in 0..ResetTimeout
      BY <1>1 DEF IInv, TypeOK
    <2>2. CASE \E c \in Calls : Execute(c)
      BY <2>1, <2>2 DEF Execute, StartClosed, RejectOpen, StartFirstProbe, StartProbe,
         RejectHalfOpen, TimedOut, circuit
    <2>3. CASE \E c \in Calls : Settle(c)
      BY <2>1, <2>3 DEF Settle, Succeed, Fail, SuccessWhileOpen, SuccessWhileHalfOpen,
         SuccessWhileClosed, FailureWhileOpen, FailureWhileHalfOpen, FailureWhileClosed,
         SettleUncounted
    <2>4. CASE Reset
      BY <2>4 DEF Reset, Close
    <2>5. CASE Trip \/ Tick \/ Recover \/ (\E c \in Calls : Again(c)) \/ UNCHANGED breakerVars
      BY <2>1, <2>5 DEF Trip, Tick, Recover, Again, breakerVars, circuit
    <2> QED
      BY <1>1, <2>2, <2>3, <2>4, <2>5 DEF Next
  <1>2. IInv /\ [Next]_breakerVars => [lasts]_breakerVars
    BY <1>1
  <1> QED
    BY <1>2, InitEstablishes, Inductive, PTL DEF Spec, OneOpening

=============================================================================
