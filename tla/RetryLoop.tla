----------------------------- MODULE RetryLoop -----------------------------
(***************************************************************************)
(* One logical request: the retry loop of Kinetex._executeWithRetryInner,  *)
(* with the clock, the caller's signal and whatever the server answers.    *)
(*                                                                         *)
(* An attempt is a whole _executeOnce.  A deadline of its own ends it; an  *)
(* answer and the deadline may race.  The budget of the request is looked  *)
(* at before a backoff only.  The caller's callbacks take no time, and the *)
(* length of a backoff is any of Backoffs, the values computeRetryDelay    *)
(* can have.                                                               *)
(***************************************************************************)
EXTENDS Naturals

CONSTANTS MaxRetries,     \* retryCfg.maxRetries
          Timeout,        \* deadline of an attempt, in ticks
          TotalTimeout,   \* retryCfg.totalTimeoutMs; 0 is no budget
          Backoffs,       \* lengths of a backoff, in ticks
          MaxQueued,      \* bound: ticks spent before the loop, the limiter's queue included
          OnTimeout,      \* retryCfg.onTimeout
          Signing         \* the client signs for AWS and corrects its clock

VARIABLES req,      \* what the loop reads of the request and of its options
          pc,       \* where the loop stands
          attempt,  \* attempt
          sent,     \* history: how often the request has been put on the wire
          elapsed,  \* perfNow() - startMs
          left,     \* ticks until the deadline of the attempt or the end of the backoff
          aborted,  \* req.signal.aborted
          skewed,   \* req.meta[AWS_SKEW_CORRECTED]
          answer,   \* res or err of the last attempt
          guarded,  \* the backoff is inside the `try`: a response is being retried
          told,     \* history: error interceptors, hooks and onError have run
          result    \* what the caller gets
retryVars == <<req, pc, attempt, sent, elapsed, left, aborted, skewed, answer, guarded,
               told, result>>

\* repeatable: the method is one of retryCfg.methods, or there is an
\* Idempotency-Key.  replayable: the body is neither a stream nor a Blob.
\* throws: an error status becomes an exception.  predicate: a shouldRetry of
\* the caller's own, which answers as it likes.
Requests == [repeatable : BOOLEAN, replayable : BOOLEAN, throws : BOOLEAN, predicate : BOOLEAN]

Statuses  == {"2xx", "503", "404", "skewed"}   \* "503": one of retryCfg.statuses
Errors    == {"ENETWORK", "ETIMEOUT", "EABORT", "EOTHER"}
Answers   == Statuses \cup Errors
Made      == {"EVALIDATION", "recovered"}

\* Types of the variables; no more attempts than the configuration allows, and
\* the one that corrects the clock.
TypeOK ==
  /\ req \in Requests
  /\ pc \in {"loop", "sending", "answered", "backoff", "done"}
  /\ attempt \in 0..(MaxRetries + 2)
  /\ sent \in 0..attempt
  /\ elapsed \in Nat
  /\ left \in Nat
  /\ aborted \in BOOLEAN /\ skewed \in BOOLEAN /\ guarded \in BOOLEAN /\ told \in BOOLEAN
  /\ answer \in Answers \cup {"none"}
  /\ result \in Answers \cup Made \cup {"none"}

Init ==
  /\ req \in Requests
  /\ pc = "loop"
  /\ attempt = 0
  /\ sent = 0
  /\ elapsed \in 0..MaxQueued
  /\ left = 0
  /\ aborted = FALSE
  /\ skewed = FALSE
  /\ answer = "none"
  /\ guarded = FALSE
  /\ told = FALSE
  /\ result = "none"

Return(r) == pc' = "done" /\ result' = r

----------------------------------------------------------------------------
\* The head of the loop.

\* The signal fired between attempts: thrown from outside the `try`.
LoopAborted ==
  /\ pc = "loop"
  /\ aborted
  /\ attempt' = attempt + 1
  /\ Return("EABORT")
  /\ UNCHANGED <<req, sent, elapsed, left, aborted, skewed, answer, guarded, told>>

\* This attempt would send a body that the first one has consumed.
BodyConsumed == attempt > 0 /\ ~req.replayable

LoopUnreplayable ==
  /\ pc = "loop"
  /\ ~aborted
  /\ BodyConsumed
  /\ attempt' = attempt + 1
  /\ Return("EVALIDATION")
  /\ UNCHANGED <<req, sent, elapsed, left, aborted, skewed, answer, guarded, told>>

Transmit ==
  /\ pc = "loop"
  /\ ~aborted
  /\ ~BodyConsumed
  /\ attempt' = attempt + 1
  /\ sent' = sent + 1
  /\ pc' = "sending"
  /\ left' = Timeout
  /\ UNCHANGED <<req, elapsed, aborted, skewed, answer, guarded, told, result>>

----------------------------------------------------------------------------
\* The attempt ends.

\* Fault: the attempt has no deadline of its own.
MayEndByServer(a) == a # "ETIMEOUT" /\ (a = "EABORT" => aborted) /\ (a = "skewed" => Signing)

\* What _executeOnce may come to: an answer at any time, a timeout when the
\* deadline is due, an abort once the signal has fired.
MayEnd(a) ==
  /\ a = "ETIMEOUT" => left = 0
  /\ a = "EABORT" => aborted
  /\ a = "skewed" => Signing

Answered(a) ==
  /\ pc = "sending"
  /\ MayEnd(a)
  /\ answer' = a
  /\ pc' = "answered"
  /\ UNCHANGED <<req, attempt, sent, elapsed, left, aborted, skewed, guarded, told, result>>

\* An error status is a response or an exception, as the caller has asked.
Thrown == answer \in Errors \/ (req.throws /\ answer # "2xx")

\* handleClockSkewError has set the signer's clock, for the first time.
ClockCorrected == Thrown /\ answer = "skewed" /\ ~skewed

\* Fault: a request that is not safe to repeat is repeated.
WorthRetryingUnsafe ==
  /\ attempt <= MaxRetries
  /\ \/ req.predicate
     \/ answer = "503" \/ answer = "ENETWORK" \/ (answer = "ETIMEOUT" /\ OnTimeout)

\* shouldRetry; a predicate of the caller's own is asked instead of it, and may
\* say yes to anything, or no.
WorthRetrying ==
  /\ attempt <= MaxRetries
  /\ \/ req.predicate
     \/ req.repeatable /\ (answer = "503" \/ answer = "ENETWORK" \/ (answer = "ETIMEOUT" /\ OnTimeout))

MayRetry == ClockCorrected \/ WorthRetrying
MayStop  == ~ClockCorrected /\ (~WorthRetrying \/ req.predicate)

\* Fault: the budget is compared with the time that has passed.
InBudgetNow(d) == TotalTimeout = 0 \/ elapsed < TotalTimeout

\* The backoff would end before the budget does.
InBudget(d) == TotalTimeout = 0 \/ elapsed + d < TotalTimeout

\* Another attempt, after a backoff of d.
Retry(d) ==
  /\ pc = "answered"
  /\ MayRetry /\ InBudget(d)
  /\ skewed' = (skewed \/ ClockCorrected)
  /\ guarded' = ~Thrown
  /\ pc' = "backoff"
  /\ left' = d
  /\ UNCHANGED <<req, attempt, sent, elapsed, aborted, answer, told, result>>

\* Fault: a budget that is used up is reported as a timeout.
OutOfBudgetTimeout(d) ==
  /\ pc = "answered"
  /\ MayRetry /\ ~InBudget(d)
  /\ skewed' = (skewed \/ ClockCorrected)
  /\ Return("ETIMEOUT")
  /\ UNCHANGED <<req, attempt, sent, elapsed, left, aborted, answer, guarded, told>>

\* The response is returned, or the error thrown as it is, when the budget has no
\* room for the backoff.
OutOfBudget(d) ==
  /\ pc = "answered"
  /\ MayRetry /\ ~InBudget(d)
  /\ skewed' = (skewed \/ ClockCorrected)
  /\ Return(answer)
  /\ UNCHANGED <<req, attempt, sent, elapsed, left, aborted, answer, guarded, told>>

\* No retry: a response is returned, and an error goes through the error
\* interceptors, which may recover from it.
Finish ==
  /\ pc = "answered"
  /\ MayStop
  /\ told' = Thrown
  /\ \/ Return(answer)
     \/ Thrown /\ Return("recovered")
  /\ UNCHANGED <<req, attempt, sent, elapsed, left, aborted, skewed, answer, guarded>>

----------------------------------------------------------------------------
\* sleep(delay, signal).

Wake ==
  /\ pc = "backoff"
  /\ ~aborted /\ left = 0
  /\ pc' = "loop"
  /\ UNCHANGED <<req, attempt, sent, elapsed, left, aborted, skewed, answer, guarded, told, result>>

\* The signal ends the backoff of a retried response: the loop's own `catch` takes
\* the abort for the outcome of the attempt.
WakeAbortedGuarded ==
  /\ pc = "backoff"
  /\ aborted /\ guarded
  /\ answer' = "EABORT"
  /\ pc' = "answered"
  /\ UNCHANGED <<req, attempt, sent, elapsed, left, aborted, skewed, guarded, told, result>>

\* The signal ends the backoff of a retried error: thrown from inside the `catch`.
WakeAborted ==
  /\ pc = "backoff"
  /\ aborted /\ ~guarded
  /\ Return("EABORT")
  /\ UNCHANGED <<req, attempt, sent, elapsed, left, aborted, skewed, answer, guarded, told>>

----------------------------------------------------------------------------
\* The rest of the world.

Abort ==
  /\ pc # "done" /\ ~aborted
  /\ aborted' = TRUE
  /\ UNCHANGED <<req, pc, attempt, sent, elapsed, left, skewed, answer, guarded, told, result>>

Tick ==
  /\ pc \in {"sending", "backoff"}
  /\ left > 0
  /\ left' = left - 1
  /\ elapsed' = elapsed + 1
  /\ UNCHANGED <<req, pc, attempt, sent, aborted, skewed, answer, guarded, told, result>>

\* What the loop, its timers and the deadline do by themselves, whatever the
\* server does.
Run ==
  \/ LoopAborted \/ LoopUnreplayable \/ Transmit
  \/ Answered("ETIMEOUT")
  \/ \E d \in Backoffs : Retry(d) \/ OutOfBudget(d)
  \/ Finish
  \/ Wake \/ WakeAbortedGuarded \/ WakeAborted
  \/ Tick

Next == Run \/ Abort \/ \E a \in Answers : Answered(a)

Spec     == Init /\ [][Next]_retryVars
FairSpec == Spec /\ WF_retryVars(Run)

----------------------------------------------------------------------------
\* Properties.

\* A request that is not safe to repeat reaches the server once, unless the
\* caller's own predicate asks for more, or a second time because the server has
\* refused it for its clock.
SafeToRepeat ==
  ~req.repeatable /\ ~req.predicate => sent <= IF skewed THEN 2 ELSE 1

\* A body that can be read once is sent once.
BodySentOnce == ~req.replayable => sent <= 1

\* What a retry must not repeat it does not (client.ts 1375-1391 and 2924-2934).
SentSafely == SafeToRepeat /\ BodySentOnce

\* No backoff outlives the budget, and so the request outlives it by less than
\* the deadline of one attempt.
BackoffInBudget ==
  TotalTimeout > 0 =>
    /\ pc = "backoff" => elapsed + left < TotalTimeout
    /\ sent > 1 => elapsed < TotalTimeout + Timeout

\* The caller gets what the last attempt came to, never a cause that the loop has
\* made up, except for its own abort and a body it cannot send again.
CauseKept ==
  pc = "done" =>
    \/ result \in {answer, "recovered"}
    \/ result = "EABORT" /\ aborted
    \/ result = "EVALIDATION" /\ ~req.replayable /\ sent = 1

\* The request ends, also when the server never answers.
Terminates == <>(pc = "done")

\* As onError is documented: whenever the request fails with an error of the
\* network or of the server, the caller's error handlers have heard of it.
FailureReported ==
  pc = "done" /\ result = answer /\ Thrown /\ answer # "EABORT" => told
=============================================================================
