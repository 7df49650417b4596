--------------------------- MODULE CircuitBreaker ---------------------------
(***************************************************************************)
(* One circuit breaker (class CircuitBreaker), which the client keeps per  *)
(* origin and wraps around every logical request.                          *)
(*                                                                         *)
(* Calls overlap: a call that began in one state settles in another, and   *)
(* every interleaving of starting, settling, tripping, resetting and of    *)
(* the reset timeout is a behaviour.                                       *)
(*                                                                         *)
(* Time is the time the circuit has been open, which is all the code       *)
(* compares.  The lifetime counters and the other timestamps are written   *)
(* and never read by the breaker, and are left out.  The number of         *)
(* consecutive failures is compared with the threshold only, and stops     *)
(* counting there.                                                         *)
(***************************************************************************)
EXTENDS Naturals, Sequences, FiniteSets

CONSTANTS Calls,                \* the callers of execute()
          FailureThreshold,     \* config.failureThreshold
          ConfiguredWindow,     \* config.windowSize; 0 is the consecutive-count mode
          SuccessThreshold,     \* config.successThreshold
          HalfOpenConcurrency,  \* config.halfOpenConcurrency
          ResetTimeout,         \* config.resetTimeoutMs, in ticks
          MaxTrips,             \* bound: how often an operator trips the circuit
          NotOpened             \* openedAt = null

ASSUME BreakerAssumption ==
  /\ IsFiniteSet(Calls)
  /\ FailureThreshold \in Nat \ {0}
  /\ ConfiguredWindow \in Nat
  /\ SuccessThreshold \in Nat \ {0}
  /\ HalfOpenConcurrency \in Nat \ {0}
  /\ ResetTimeout \in Nat
  /\ MaxTrips \in Nat
  /\ NotOpened \notin Nat

VARIABLES state,     \* _state
          window,    \* _window, the latest results, oldest first
          fails,     \* _consecutiveFails
          succ,      \* _consecutiveSucc
          openFor,   \* Date.now() - _openedAt, up to ResetTimeout
          probes,    \* _inFlightProbes
          call,      \* where each caller stands; "probing" is heldProbe
          healthy,   \* environment: from now on every call succeeds
          trips      \* how often the circuit has been tripped by hand
circuit     == <<state, window, fails, succ, openFor, probes>>
breakerVars == <<circuit, call, healthy, trips>>

InFlight == {"flying", "probing"}

----------------------------------------------------------------------------
\* The window.

\* Fault: a window smaller than the threshold is left as it was configured.
WindowAsConfigured == ConfiguredWindow

\* The constructor widens a window that could not hold enough failures.
WindowSize == IF ConfiguredWindow > 0 /\ ConfiguredWindow < FailureThreshold
                THEN FailureThreshold ELSE ConfiguredWindow

Results     == {"ok", "failed"}
Failures(w) == Cardinality({i \in DOMAIN w : w[i] = "failed"})

\* The window after one more result.
Slide(w, result) ==
  IF WindowSize = 0 THEN w
    ELSE IF Len(w) < WindowSize THEN Append(w, result) ELSE Append(Tail(w), result)

----------------------------------------------------------------------------
\* State changes shared by the handlers.

\* Types of the variables; the window and the counters stay within their sizes.
TypeOK ==
  /\ state \in {"CLOSED", "OPEN", "HALF_OPEN"}
  /\ window \in Seq(Results) /\ Len(window) <= WindowSize
  /\ fails \in 0..FailureThreshold
  /\ succ \in 0..(SuccessThreshold - 1)
  /\ openFor \in (0..ResetTimeout) \cup {NotOpened}
  /\ probes \in 0..HalfOpenConcurrency
  /\ call \in [Calls -> {"idle", "rejected"} \cup InFlight]
  /\ healthy \in BOOLEAN
  /\ trips \in 0..MaxTrips
  /\ state = "OPEN" => openFor # NotOpened

Init ==
  /\ state = "CLOSED"
  /\ window = <<>>
  /\ fails = 0
  /\ succ = 0
  /\ openFor = NotOpened
  /\ probes = 0
  /\ call = [c \in Calls |-> "idle"]
  /\ healthy = FALSE
  /\ trips = 0

\* The circuit opens, now.
Open == state' = "OPEN" /\ openFor' = 0

\* reset(), called by hand or by the success that closes the circuit.
Close ==
  /\ state' = "CLOSED"
  /\ window' = <<>>
  /\ fails' = 0
  /\ succ' = 0
  /\ openFor' = NotOpened
  /\ probes' = 0

TimedOut == state = "OPEN" /\ openFor # NotOpened /\ openFor >= ResetTimeout

\* Faults: a probe gives its slot back only if the circuit is still half-open
\* when it settles, or not at all.
SlotsAfterIfHalfOpen(c) ==
  IF call[c] = "probing" /\ state = "HALF_OPEN" /\ probes > 0 THEN probes - 1 ELSE probes
SlotsAfterNever(c) == probes

\* The probe slots after call c settles, whatever the state is by then.
SlotsAfter(c) == IF call[c] = "probing" /\ probes > 0 THEN probes - 1 ELSE probes

----------------------------------------------------------------------------
\* execute(fn), up to the point where fn is called.

BeginAs(c, p) == call[c] = "idle" /\ call' = [call EXCEPT ![c] = p]

\* The circuit is closed: the call goes through.
StartClosed(c) ==
  /\ state = "CLOSED"
  /\ BeginAs(c, "flying")
  /\ UNCHANGED <<circuit, healthy, trips>>

\* The circuit is open and its timeout has not passed: CircuitOpenError.
RejectOpen(c) ==
  /\ state = "OPEN"
  /\ ~TimedOut
  /\ BeginAs(c, "rejected")
  /\ UNCHANGED <<circuit, healthy, trips>>

\* _checkTransition half-opens the circuit, and this call is its first probe.
StartFirstProbe(c) ==
  /\ TimedOut
  /\ state' = "HALF_OPEN"
  /\ succ' = 0
  /\ probes' = 1
  /\ BeginAs(c, "probing")
  /\ UNCHANGED <<window, fails, openFor, healthy, trips>>

\* Half-open with a free slot: one more probe.
StartProbe(c) ==
  /\ state = "HALF_OPEN"
  /\ probes < HalfOpenConcurrency
  /\ probes' = probes + 1
  /\ BeginAs(c, "probing")
  /\ UNCHANGED <<state, window, fails, succ, openFor, healthy, trips>>

\* Half-open with every slot taken: CircuitOpenError.
RejectHalfOpen(c) ==
  /\ state = "HALF_OPEN"
  /\ probes >= HalfOpenConcurrency
  /\ BeginAs(c, "rejected")
  /\ UNCHANGED <<circuit, healthy, trips>>

Execute(c) ==
  StartClosed(c) \/ RejectOpen(c) \/ StartFirstProbe(c) \/ StartProbe(c) \/ RejectHalfOpen(c)

----------------------------------------------------------------------------
\* The call settles, in whatever state the circuit is by then.

EndOf(c) == call[c] \in InFlight /\ call' = [call EXCEPT ![c] = "idle"]

\* _recordSuccess, the circuit having opened meanwhile: not counted.
SuccessWhileOpen(c) ==
  /\ state = "OPEN"
  /\ EndOf(c)
  /\ fails' = 0
  /\ probes' = SlotsAfter(c)
  /\ UNCHANGED <<state, window, succ, openFor, healthy, trips>>

\* _recordSuccess while half-open: closes the circuit when it is the last needed.
SuccessWhileHalfOpen(c) ==
  /\ state = "HALF_OPEN"
  /\ EndOf(c)
  /\ IF succ + 1 >= SuccessThreshold
       THEN Close
       ELSE /\ succ' = succ + 1
            /\ fails' = 0
            /\ probes' = SlotsAfter(c)
            /\ UNCHANGED <<state, window, openFor>>
  /\ UNCHANGED <<healthy, trips>>

\* _recordSuccess while closed: enters the window.
SuccessWhileClosed(c) ==
  /\ state = "CLOSED"
  /\ EndOf(c)
  /\ window' = Slide(window, "ok")
  /\ fails' = 0
  /\ probes' = SlotsAfter(c)
  /\ UNCHANGED <<state, succ, openFor, healthy, trips>>

MoreFails == IF fails < FailureThreshold THEN fails + 1 ELSE fails

\* Fault: every late failure opens the circuit again.
FailureWhileOpenAgain(c) ==
  /\ state = "OPEN"
  /\ EndOf(c)
  /\ succ' = 0
  /\ fails' = MoreFails
  /\ probes' = SlotsAfter(c)
  /\ Open
  /\ UNCHANGED <<window, healthy, trips>>

\* _recordFailure, the circuit being open already: counted, and no more.
FailureWhileOpen(c) ==
  /\ state = "OPEN"
  /\ EndOf(c)
  /\ succ' = 0
  /\ fails' = MoreFails
  /\ probes' = SlotsAfter(c)
  /\ UNCHANGED <<state, window, openFor, healthy, trips>>

\* _recordFailure while half-open: one failure opens the circuit again.
FailureWhileHalfOpen(c) ==
  /\ state = "HALF_OPEN"
  /\ EndOf(c)
  /\ succ' = 0
  /\ fails' = MoreFails
  /\ probes' = SlotsAfter(c)
  /\ Open
  /\ UNCHANGED <<window, healthy, trips>>

\* The condition on which a failure of a closed circuit opens it.
TooManyFailures ==
  IF WindowSize > 0 THEN Failures(Slide(window, "failed")) >= FailureThreshold
                    ELSE MoreFails >= FailureThreshold

\* _recordFailure while closed.
FailureWhileClosed(c) ==
  /\ state = "CLOSED"
  /\ EndOf(c)
  /\ succ' = 0
  /\ fails' = MoreFails
  /\ window' = Slide(window, "failed")
  /\ probes' = SlotsAfter(c)
  /\ IF TooManyFailures THEN Open ELSE UNCHANGED <<state, openFor>>
  /\ UNCHANGED <<healthy, trips>>

\* An error the failure filter does not count: only the probe slot is returned.
SettleUncounted(c) ==
  /\ ~healthy
  /\ EndOf(c)
  /\ probes' = SlotsAfter(c)
  /\ UNCHANGED <<state, window, fails, succ, openFor, healthy, trips>>

Succeed(c) == SuccessWhileOpen(c) \/ SuccessWhileHalfOpen(c) \/ SuccessWhileClosed(c)
Fail(c)    == ~healthy /\ (\/ FailureWhileOpen(c)
                           \/ FailureWhileHalfOpen(c)
                           \/ FailureWhileClosed(c))
Settle(c)  == Succeed(c) \/ Fail(c) \/ SettleUncounted(c)

----------------------------------------------------------------------------
\* The rest of the world.

\* trip(), by hand.
Trip ==
  /\ trips < MaxTrips
  /\ state # "OPEN"
  /\ Open
  /\ trips' = trips + 1
  /\ UNCHANGED <<window, fails, succ, probes, call, healthy>>

\* reset(), by hand.
Reset ==
  /\ Close
  /\ UNCHANGED <<call, healthy, trips>>

\* Time passes while the circuit is open.
Tick ==
  /\ state = "OPEN"
  /\ openFor < ResetTimeout
  /\ openFor' = openFor + 1
  /\ UNCHANGED <<state, window, fails, succ, probes, call, healthy, trips>>

\* A rejected caller may call again.
Again(c) ==
  /\ call[c] = "rejected"
  /\ call' = [call EXCEPT ![c] = "idle"]
  /\ UNCHANGED <<circuit, healthy, trips>>

\* The service recovers for good.
Recover ==
  /\ ~healthy
  /\ healthy' = TRUE
  /\ UNCHANGED <<circuit, call, trips>>

Next ==
  \/ \E c \in Calls : Execute(c) \/ Settle(c) \/ Again(c)
  \/ Trip \/ Reset \/ Tick \/ Recover

\* Timers fire, callers keep calling, and every call settles.
Fairness ==
  /\ WF_breakerVars(Tick)
  /\ \A c \in Calls : WF_breakerVars(Execute(c)) /\ WF_breakerVars(Again(c))
                      /\ WF_breakerVars(Settle(c))

Spec     == Init /\ [][Next]_breakerVars
FairSpec == Spec /\ Fairness

----------------------------------------------------------------------------
\* Properties.

Probing == {c \in Calls : call[c] = "probing"}

\* A closed circuit has seen fewer failures than the threshold: in the window, so
\* that nothing recorded before the circuit last closed can open it again...
ClosedBelowThreshold == state = "CLOSED" => Failures(window) < FailureThreshold

\* ... and in a row, whatever window was configured: a breaker whose window is
\* too small for its threshold would stay closed through any number of failures.
NeverBlind == state = "CLOSED" => fails < FailureThreshold

\* The circuit opens in time, by either count, and by what has happened since it closed
\* (circuit-breaker.ts 203-215 and 426-445).
OpensInTime == ClosedBelowThreshold /\ NeverBlind

\* A probe slot counted as taken is held by a call in flight: probes that settle
\* after the circuit has moved on leave no slot occupied for ever.
NoPhantomProbe == probes <= Cardinality(Probing)

\* One opening lasts ResetTimeout: late failures of sibling calls do not start
\* it afresh, and only a manual reset ends it earlier.
OneOpening ==
  [][state = "OPEN" =>
       \/ state' = "OPEN" /\ openFor' >= openFor
       \/ state' = "HALF_OPEN" /\ openFor = ResetTimeout
       \/ state' = "CLOSED" /\ UNCHANGED call]_breakerVars

\* Once every call succeeds again, the circuit closes for good: no probe slot is
\* lost, and no late result of an earlier failure keeps it open.
Recovers == healthy ~> [](state = "CLOSED")

\* As the configuration documents it: in HALF_OPEN at most halfOpenConcurrency
\* probe requests are in flight.
ProbeLimit == state = "HALF_OPEN" => Cardinality(Probing) <= HalfOpenConcurrency
=============================================================================
