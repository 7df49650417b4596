---------------------------- MODULE SendPipeline ----------------------------
(***************************************************************************)
(* How Kinetex.send composes its three gatekeepers around the retry loop:  *)
(*                                                                         *)
(*     circuit breaker ( dedup map ( concurrency limiter ( attempts ) ) )  *)
(*                                                                         *)
(* Requests to one origin go through one breaker and one limiter; those    *)
(* that ask for the same thing meet in one entry of the dedup map.  Each   *)
(* layer hands a promise to the layer above and hears of its outcome in a  *)
(* microtask of its own, so the layers can disagree for a while about what *)
(* is still going on.                                                      *)
(*                                                                         *)
(* The layers are the component modules.  The client gives the dedup map   *)
(* no signal, so an abort reaches the limiter and the attempts only.  A    *)
(* call is sent once; nobody sends after destroy().  The breaker's clock   *)
(* and the map's are left independent, all callers have the configured     *)
(* window, and a due timer of the map runs before anything else.           *)
(***************************************************************************)
EXTENDS Naturals, Sequences, FiniteSets, TLC

CONSTANTS Calls,                                                 \* calls of send()
          FailureThreshold, ConfiguredWindow, SuccessThreshold,  \* of the breaker
          HalfOpenConcurrency, ResetTimeout, NotOpened,
          MaxConcurrent, Queueing, MaxQueue,                     \* of the limiter
          WindowMs, None                                         \* of the dedup map

ASSUME PipelineAssumption ==
  /\ IsFiniteSet(Calls)
  /\ MaxConcurrent \in Nat \ {0}
  /\ WindowMs \in Nat
  /\ None \notin Nat \cup Calls

VARIABLES state, results, fails, succ, openFor, probes, call,    \* the breaker
          owner, entry, window, role, leader, outcome,           \* the dedup map
          age, timer, timerOf, dropped, wiped, hits, misses,
          active, peak, waiters, phase, aborted,                 \* the limiter
          verdict,    \* how the attempts of each call have ended
          destroyed   \* destroy() has been called
circuit      == <<state, results, fails, succ, openFor, probes, call>>
map          == <<owner, entry, window, role, leader, outcome,
                  age, timer, timerOf, dropped, wiped, hits, misses>>
permits      == <<active, peak, waiters, phase, aborted>>
pipelineVars == <<circuit, map, permits, verdict, destroyed>>

Breaker == INSTANCE CircuitBreaker
             WITH window <- results, healthy <- ~TRUE, trips <- 0, MaxTrips <- 0
Dedup   == INSTANCE DedupMap
             WITH Windows <- {WindowMs}, PromptTimers <- TRUE, aborted <- {}
Limiter == INSTANCE ConcurrencyLimiter WITH Requests <- Calls

Init ==
  /\ Breaker!Init /\ Dedup!Init /\ Limiter!Init
  /\ verdict = [c \in Calls |-> "none"]
  /\ destroyed = FALSE

----------------------------------------------------------------------------
\* Down the layers.

\* send(): the breaker admits the call or rejects it.
Send(c) ==
  /\ ~destroyed
  /\ role[c] = "new"
  /\ Breaker!Execute(c)
  /\ UNCHANGED <<map, permits, verdict, destroyed>>

Admitted(c) == call[c] \in Breaker!InFlight /\ role[c] = "new" /\ Dedup!Loop

\* The microtask of an admitted call: the same request is in flight already, or
\* has just succeeded.
Share(c) ==
  /\ Admitted(c)
  /\ Dedup!Join(c) \/ Dedup!JoinWindow(c, WindowMs)
  /\ UNCHANGED <<circuit, permits, verdict, destroyed>>

\* Fault: a request whose method is not coalesced does not queue.
RequestUnbounded(c) ==
  /\ Admitted(c)
  /\ \/ (Dedup!Lead(c, WindowMs) \/ Dedup!OwnRequest(c, WindowMs)) /\ Limiter!Acquire(c)
     \/ /\ Dedup!Bypass(c)
        /\ active' = active + 1 /\ peak' = Limiter!RaisedPeak(active + 1)
        /\ phase' = [phase EXCEPT ![c] = "granted"]
        /\ UNCHANGED <<waiters, aborted>>
  /\ UNCHANGED <<circuit, verdict, destroyed>>

\* The microtask of an admitted call: it leads, or its method is not coalesced,
\* and its factory asks for a permit in the same step.
Request(c) ==
  /\ Admitted(c)
  /\ Dedup!Lead(c, WindowMs) \/ Dedup!OwnRequest(c, WindowMs) \/ Dedup!Bypass(c)
  /\ Limiter!Acquire(c)
  /\ UNCHANGED <<circuit, verdict, destroyed>>

\* The permit's microtask: the attempts begin.
Run(c) ==
  /\ Limiter!Resume(c)
  /\ UNCHANGED <<circuit, map, verdict, destroyed>>

----------------------------------------------------------------------------
\* And up again.

Verdicts(c) == {"ok", "failed"} \cup IF destroyed \/ c \in aborted THEN {"aborted"} ELSE {}

\* Fault: the permit is given back when the attempts have succeeded only.
EndAttemptsUnreleased(c) ==
  /\ phase[c] = "running"
  /\ verdict' = [verdict EXCEPT ![c] = "failed"]
  /\ phase' = [phase EXCEPT ![c] = "done"]
  /\ UNCHANGED <<circuit, map, active, peak, waiters, aborted, destroyed>>

\* The last attempt ends and the permit is given back, in the `finally`.
EndAttempts(c) ==
  /\ Limiter!Settle(c)
  /\ \E v \in Verdicts(c) : verdict' = [verdict EXCEPT ![c] = v]
  /\ UNCHANGED <<circuit, map, destroyed>>

\* The factory of a leader, or of a call on its own, has settled.
Finished(c) == phase[c] \in Limiter!Settled
Good(c)     == verdict[c] = "ok"

\* The dedup map hears of it, and everyone who shares the request.
Publish(c) ==
  /\ Finished(c)
  /\ Dedup!Loop
  /\ IF Good(c) THEN Dedup!SucceedOwner(c) \/ Dedup!SucceedDropped(c) \/ Dedup!SettleAlone(c, "ok")
                ELSE Dedup!Fail(c, "failed") \/ Dedup!SettleAlone(c, "failed")
  /\ UNCHANGED <<circuit, permits, verdict, destroyed>>

\* The call whose attempts decide what becomes of call c.
Source(c) == IF role[c] = "sharer" THEN leader[c] ELSE c

\* Fault: only the call that ran the attempts tells the breaker how it went.
AnswerUnlessShared(c) ==
  /\ outcome[c] # "none"
  /\ role[c] # "sharer"
  /\ IF verdict[c] = "failed" THEN Breaker!Fail(c)
       ELSE IF Good(c) THEN Breaker!Succeed(c) ELSE Breaker!SettleUncounted(c)
  /\ UNCHANGED <<map, permits, verdict, destroyed>>

\* The breaker hears of it, once per call: a failure of the service counts, an
\* abort and a refusal of the limiter do not.
Answer(c) ==
  /\ outcome[c] # "none"
  /\ IF verdict[Source(c)] = "failed" THEN Breaker!Fail(c)
       ELSE IF Good(Source(c)) THEN Breaker!Succeed(c) ELSE Breaker!SettleUncounted(c)
  /\ UNCHANGED <<map, permits, verdict, destroyed>>

----------------------------------------------------------------------------
\* The rest of the world.

\* Fault: the client hands the caller's signal to the dedup map.
AbortDropping(c) ==
  /\ outcome[c] = "none" /\ role[c] # "sharer"
  /\ Limiter!AbortQueued(c) \/ Limiter!AbortElsewhere(c)
  /\ IF role[c] = "leader" THEN owner' = None /\ dropped' = TRUE ELSE UNCHANGED <<owner, dropped>>
  /\ UNCHANGED <<circuit, entry, window, role, leader, outcome, age, timer, timerOf,
                 wiped, hits, misses, verdict, destroyed>>

\* The signal of a caller fires.  Nobody listens to that of a call that shares.
Abort(c) ==
  /\ outcome[c] = "none" /\ role[c] # "sharer"
  /\ Limiter!AbortQueued(c) \/ Limiter!AbortElsewhere(c)
  /\ UNCHANGED <<circuit, map, verdict, destroyed>>

\* destroy(): the attempts in flight are aborted, the limiter's queue is drained
\* and the dedup map emptied.
Destroy ==
  /\ ~destroyed
  /\ destroyed' = TRUE
  /\ IF waiters = <<>> THEN UNCHANGED permits ELSE Limiter!Drain
  /\ IF owner = None THEN UNCHANGED map ELSE Dedup!Invalidate
  /\ UNCHANGED <<circuit, verdict>>

\* Time passes for an open circuit, or for a completed response.
Tick ==
  \/ Breaker!Tick /\ UNCHANGED <<map, permits, verdict, destroyed>>
  \/ (Dedup!Tick \/ Dedup!Expire) /\ UNCHANGED <<circuit, permits, verdict, destroyed>>

\* A step of the event loop that brings call c nearer to its answer.
Progress(c) ==
  Share(c) \/ Request(c) \/ Run(c) \/ EndAttempts(c) \/ Publish(c) \/ Answer(c)

Next ==
  \/ \E c \in Calls : Send(c) \/ Progress(c) \/ Abort(c)
  \/ Destroy \/ Tick

Spec == Init /\ [][Next]_pipelineVars

----------------------------------------------------------------------------
\* Properties.

\* Each layer does nothing that its own module does not allow.
UsesBreaker == Breaker!Spec
UsesDedup   == Dedup!Spec
UsesLimiter == Limiter!Spec

\* Every layer is used as it expects: a permit is released by the request that
\* was granted it and once, an entry settles once and for its own leader, and a
\* call is settled with the breaker that admitted it.  What is shown of the
\* layers by themselves therefore holds of them here.
UsesLayers == UsesBreaker /\ UsesDedup /\ UsesLimiter

\* Coalesced calls cost one permit or one place in the queue between them, and
\* only one request of them is under way, until the client is destroyed.
OneRequestPerKey ==
  ~destroyed =>
    Cardinality({c \in Calls : role[c] # "alone" /\ phase[c] \in {"waiting"} \cup Limiter!Holding}) <= 1

\* When the last caller has its answer nothing is left behind in any layer: no
\* permit, no waiter, no probe slot, no entry but one whose timer will remove it.
\* (After destroy() a late failure may clear that timer, as in the map by itself.)
NothingLeftBehind ==
  (\A c \in Calls : call[c] \notin Breaker!InFlight) =>
     /\ active = 0 /\ waiters = <<>>
     /\ probes = 0
     /\ owner = None \/ timer # None \/ dropped

\* What lets a call take its next step, whatever the others do: it has still to
\* decide what it is, it holds a permit, its factory has settled, or it has its
\* answer and the breaker has not.
CanMove(c) ==
  \/ role[c] = "new" /\ call[c] \in Breaker!InFlight
  \/ phase[c] \in Limiter!Holding
  \/ role[c] \in {"leader", "alone"} /\ outcome[c] = "none" /\ Finished(c)
  \/ outcome[c] # "none" /\ call[c] \in Breaker!InFlight

\* No layer waits for one that waits for it: while a call is unanswered, some
\* call can take a step, whatever has been aborted, refused or destroyed.  Every
\* call takes a few steps only, so every call is answered in the end.
NeverStuck ==
  (\E c \in Calls : call[c] \in Breaker!InFlight) =>
     Dedup!TimerDue \/ \E c \in Calls : CanMove(c) /\ ENABLED Progress(c)

----------------------------------------------------------------------------
\* The calls are alike: what is so for some is so for any.
Alike == Permutations(Calls)

=============================================================================
