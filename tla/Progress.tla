------------------------------- MODULE Progress -------------------------------
(***************************************************************************)
(* What is reported of a transfer (progress.ts): ProgressTracker, the      *)
(* streams that wrap an upload or a download, streamWithProgress and       *)
(* collectStream, the requests of xhrFetch, and the parts of               *)
(* MultiPartProgressAggregator.  A behaviour is of one of them, "way".     *)
(*                                                                         *)
(* Bytes come in chunks of one.  Rates and times that remain, and the      *)
(* callback that throws, are left out.                                     *)
(***************************************************************************)
EXTENDS Naturals

CONSTANTS BodyChunks,           \* of the body
          Interval, MaxInstant, \* ticks between two reports, and of the clock
          None

VARIABLES way,
          instant,
          trackers,   \* of the transfer; of upload and download for xhr; of two parts
          made,       \* the parts that have a tracker
          overall,    \* what the aggregator last reported
          source,     \* untouched, open, ended, failed, cancelled
          left,       \* chunks the source still has
          reading,    \* a read of the source: pending, or how it was settled
          out,        \* the stream given out: readable, closed, errored
          queued, got,  \* chunks waiting in it, and those the consumer has
          signalled, listening,  \* the signal, and a listener on it
          heard,      \* the abort reached the transfer
          hungUp,     \* its consumer cancelled it
          ending      \* None, "whole", or what the consumer is thrown
progressVars == <<way, instant, trackers, made, overall, source, left, reading, out, queued, got,
                  signalled, listening, heard, hungUp, ending>>

Wrappers == {"upload", "download"}
Readers  == {"iterate", "collect"}
Both     == {1, 2}

Snapshot(t) == [loaded |-> t.loaded, done |-> t.done, failed |-> t.failed, aborted |-> t.aborted]

Fresh ==
  LET none == [loaded |-> 0, done |-> FALSE, failed |-> FALSE, aborted |-> FALSE]
  IN  [loaded |-> 0, done |-> FALSE, failed |-> FALSE, aborted |-> FALSE,
       emitted |-> None, seen |-> none]

TypeOK ==
  /\ way \in Wrappers \cup Readers \cup {"xhr", "parts"}
  /\ \A i \in Both : trackers[i].loaded \in Nat /\ trackers[i].emitted \in {None} \cup Nat
  /\ source \in {"untouched", "open", "ended", "failed", "cancelled"} /\ left \in 0..BodyChunks
  /\ reading \in {None, "pending", "chunk", "end", "broken"}
  /\ out \in {"readable", "closed", "errored"} /\ queued \in 0..1 /\ got \in 0..BodyChunks
  /\ ending \in {None, "whole", "error", "aborted", "left"}


----------------------------------------------------------------------------
(* The tracker.                                                            *)

Emitted(t) == [t EXCEPT !.seen = Snapshot(t)]

Due(t) == t.emitted = None \/ instant - t.emitted >= Interval

Updated(t) ==
  LET u == [t EXCEPT !.loaded = @ + 1]
  IN  IF Due(t) THEN [Emitted(u) EXCEPT !.emitted = instant] ELSE u

Completed(t) == Emitted([t EXCEPT !.done = @ \/ ~t.failed])

Failed(t, aborted) ==
  IF t.done THEN t ELSE Emitted([t EXCEPT !.failed = TRUE, !.aborted = aborted])

\* A signal already aborted errors the wrapper at once: its source is neither read nor
\* cancelled.
Init ==
  /\ way \in Wrappers \cup Readers \cup {"xhr", "parts"}
  /\ instant = 0 /\ made = {} /\ overall = Snapshot(Fresh) /\ left = BodyChunks /\ reading = None
  /\ queued = 0 /\ got = 0 /\ hungUp = FALSE /\ ending = None
  /\ \/ /\ signalled = FALSE /\ heard = FALSE /\ source = "open" /\ out = "readable"
        /\ trackers = [i \in Both |-> Fresh]
        /\ listening = (way \in Wrappers \cup {"collect", "xhr"})
     \/ /\ way \in Wrappers /\ signalled = TRUE /\ heard = TRUE /\ listening = FALSE
        /\ source = "untouched" /\ out = "errored"
        /\ trackers = [i \in Both |-> IF i = 1 THEN Failed(Fresh, TRUE) ELSE Fresh]

Tell(t) == trackers' = [trackers EXCEPT ![1] = t]

(* The source, which a reader holds.                                       *)

Pull ==
  /\ reading = None /\ ending = None
  /\ \/ way \in Wrappers /\ out = "readable" /\ queued = 0
     \/ way \in Readers /\ (way = "iterate" => ~signalled)
  /\ reading' = IF source = "open" THEN "pending" ELSE "end"
  /\ UNCHANGED <<way, instant, trackers, made, overall, source, left, out, queued, got, signalled,
                 listening, heard, hungUp, ending>>

Settle ==
  /\ reading = "pending" /\ source = "open"
  /\ \/ left > 0 /\ left' = left - 1 /\ reading' = "chunk" /\ UNCHANGED source
     \/ left = 0 /\ source' = "ended" /\ reading' = "end" /\ UNCHANGED left
     \/ source' = "failed" /\ reading' = "broken" /\ UNCHANGED left
  /\ UNCHANGED <<way, instant, trackers, made, overall, out, queued, got, signalled, listening,
                 heard, hungUp, ending>>

\* reader.cancel() settles the read that is pending as the end of the body.
Cancel ==
  /\ source' = IF source = "open" THEN "cancelled" ELSE source
  /\ reading' = IF reading = "pending" /\ source = "open" THEN "end" ELSE reading

(* withUploadProgress and withDownloadProgress.                            *)

Detached == listening' = FALSE

\* A stream that is closed or in error refuses a chunk and a close: what that throws is
\* taken for a failure of the body.
Refused ==
  /\ Detached
  /\ IF heard THEN UNCHANGED trackers ELSE Tell(Failed(trackers[1], FALSE))
  /\ out' = IF out = "readable" THEN "errored" ELSE out

Pass ==
  /\ way \in Wrappers /\ reading = "chunk" /\ reading' = None
  /\ IF out = "readable"
     THEN Tell(Updated(trackers[1])) /\ queued' = 1 /\ UNCHANGED <<out, listening>>
     ELSE UNCHANGED queued /\ out' = out /\ Detached /\
          Tell(IF heard THEN Updated(trackers[1]) ELSE Failed(Updated(trackers[1]), FALSE))
  /\ UNCHANGED <<way, instant, made, overall, source, left, got, signalled, heard, hungUp, ending>>

\* The end of the body, or of a reader that was cancelled.
PassEnd ==
  /\ way \in Wrappers /\ reading = "end" /\ reading' = None /\ Detached
  /\ LET t == IF heard THEN trackers[1] ELSE Completed(trackers[1])
     IN  Tell(IF heard \/ out = "readable" THEN t ELSE Failed(t, FALSE))
  /\ out' = IF out = "readable" THEN "closed" ELSE out
  /\ UNCHANGED <<way, instant, made, overall, source, left, queued, got, signalled, heard,
                 hungUp, ending>>

PassError ==
  /\ way \in Wrappers /\ reading = "broken" /\ reading' = None /\ Refused
  /\ queued' = IF out = "readable" THEN 0 ELSE queued
  /\ UNCHANGED <<way, instant, made, overall, source, left, got, signalled, heard, hungUp, ending>>

\* The consumer of the stream.
Consume ==
  /\ way \in Wrappers /\ ending = None
  /\ \/ queued = 1 /\ queued' = 0 /\ got' = got + 1 /\ UNCHANGED ending
     \/ queued = 0 /\ out = "closed" /\ ending' = "whole" /\ UNCHANGED <<queued, got>>
     \/ out = "errored" /\ ending' = (IF heard THEN "aborted" ELSE "error")
          /\ UNCHANGED <<queued, got>>
  /\ UNCHANGED <<way, instant, trackers, made, overall, source, left, reading, out, signalled,
                 listening, heard, hungUp>>

HangUp ==
  /\ way \in Wrappers /\ ending = None /\ out = "readable"
  /\ hungUp' = TRUE /\ ending' = "left" /\ out' = "closed" /\ queued' = 0
  /\ Detached /\ Cancel /\ Tell(Failed(trackers[1], TRUE))
  /\ UNCHANGED <<way, instant, made, overall, left, got, signalled, heard>>

(* streamWithProgress and collectStream.                                   *)

\* The one hands its chunk out with a snapshot, the other keeps it.
Take ==
  /\ way \in Readers /\ reading = "chunk" /\ reading' = None
  /\ Tell(Updated(trackers[1])) /\ got' = got + 1
  /\ UNCHANGED <<way, instant, made, overall, source, left, out, queued, signalled, listening,
                 heard, hungUp, ending>>

\* Fault: the end of a reader that was cancelled is taken for the end of the body.
CutShortNot == FALSE

CutShort == way = "collect" /\ heard

TakeEnd ==
  /\ way \in Readers /\ reading \in {"end", "broken"} /\ reading' = None /\ Detached
  /\ ending' = CASE reading = "broken" -> "error" [] CutShort -> "aborted" [] OTHER -> "whole"
  /\ IF ending' = "whole" THEN Tell(Completed(trackers[1])) ELSE UNCHANGED trackers
  /\ UNCHANGED <<way, instant, made, overall, source, left, out, queued, got, signalled, heard,
                 hungUp>>

\* The generator looks at the signal between two reads only, and does not cancel its source.
Leave ==
  /\ way = "iterate" /\ ending = None /\ reading = None
  /\ \/ signalled /\ ending' = "aborted" /\ heard' = TRUE
     \/ ending' = "left" /\ UNCHANGED heard
  /\ UNCHANGED <<way, instant, trackers, made, overall, source, left, reading, out, queued, got,
                 signalled, listening, hungUp>>

(* xhrFetch: the events of one request.                                    *)

Answered(how) == ending' = how /\ Detached

Xhr ==
  /\ way = "xhr" /\ ending = None
  /\ \/ \E i \in Both : /\ ~trackers[i].done /\ trackers[i].loaded < BodyChunks
                        /\ trackers' = [trackers EXCEPT ![i] = Updated(@)]
                        /\ UNCHANGED <<ending, listening>>
     \/ /\ ~trackers[1].done /\ Tell(Completed(trackers[1]))   \* the upload's "load"
        /\ UNCHANGED <<ending, listening>>
     \/ /\ trackers' = [trackers EXCEPT ![2] = Completed(@)] /\ Answered("whole")
     \* "error", "timeout", "abort", a body that send() refuses
     \/ \E how \in {"error", "aborted"} : Answered(how) /\ UNCHANGED trackers
  /\ UNCHANGED <<way, instant, made, overall, source, left, reading, out, queued, got, signalled,
                 heard, hungUp>>

(* The signal.  A listener runs once.                                      *)

Abort ==
  /\ way # "parts" /\ ~signalled /\ signalled' = TRUE
  /\ heard' = (heard \/ listening) /\ listening' = FALSE
  /\ CASE ~listening -> UNCHANGED <<trackers, source, reading, out, queued, ending>>
       [] way \in Wrappers ->
            /\ Cancel /\ Tell(Failed(trackers[1], TRUE))
            /\ out' = "errored" /\ queued' = 0 /\ UNCHANGED ending
       [] way = "collect" -> Cancel /\ UNCHANGED <<trackers, out, queued, ending>>
       [] way = "xhr" -> /\ ending' = "aborted"
                         /\ UNCHANGED <<trackers, source, reading, out, queued>>
  /\ UNCHANGED <<way, instant, made, overall, left, got, hungUp>>

(* MultiPartProgressAggregator: a report of a part is one of the whole.    *)

Overall(ts) ==
  LET all(P(_)) == \A i \in Both : P(ts[i])
      any(P(_)) == \E i \in Both : P(ts[i])
      isDone(t) == t.done
      isFailed(t) == t.failed
      isAborted(t) == t.aborted
  IN  [loaded |-> ts[1].loaded + ts[2].loaded, done |-> all(isDone) /\ ~any(isFailed),
       failed |-> any(isFailed), aborted |-> any(isAborted)]

PartTracker(i) == IF i \in made THEN trackers[i] ELSE Fresh

Report(i, t) ==
  /\ trackers' = [trackers EXCEPT ![i] = t]
  /\ overall' = IF t.seen # trackers[i].seen THEN Overall(trackers') ELSE overall

Part(i) ==
  /\ way = "parts"
  /\ \/ /\ made' = made \cup {i} /\ trackers' = [trackers EXCEPT ![i] = PartTracker(i)]
        /\ UNCHANGED overall
     \/ /\ i \in made /\ UNCHANGED made
        /\ \/ trackers[i].loaded < BodyChunks /\ Report(i, Updated(trackers[i]))
           \/ Report(i, Completed(trackers[i]))
           \/ \E aborted \in BOOLEAN : Report(i, Failed(trackers[i], aborted))
  /\ UNCHANGED <<way, instant, source, left, reading, out, queued, got, signalled, listening,
                 heard, hungUp, ending>>

Tick ==
  /\ instant < MaxInstant /\ instant' = instant + 1
  /\ UNCHANGED <<way, trackers, made, overall, source, left, reading, out, queued, got, signalled,
                 listening, heard, hungUp, ending>>

Next ==
  \/ Pull \/ Settle \/ Pass \/ PassEnd \/ PassError \/ Consume \/ HangUp
  \/ Take \/ TakeEnd \/ Leave \/ Xhr \/ Abort \/ Tick
  \/ \E i \in Both : Part(i)

Spec == Init /\ [][Next]_progressVars

----------------------------------------------------------------------------
\* A transfer is announced as finished only when all of it was delivered, and never when it
\* was aborted, abandoned or broken; what is announced last is how it ended
\* (progress.ts 154-190, 315-321, 400-403, 547-552, 666-677).
Announced ==
  /\ \A i \in Both :
       LET t == trackers[i]
       IN  /\ ~(t.done /\ t.failed)
           /\ t.seen.done = t.done /\ t.seen.failed = t.failed /\ t.seen.aborted = t.aborted
  /\ way \in Wrappers \cup Readers =>
       /\ trackers[1].done => source = "ended" /\ left = 0 /\ trackers[1].seen.loaded = BodyChunks
       /\ ending = "whole" => trackers[1].done /\ got = BodyChunks
  /\ way \in Wrappers =>
       /\ heard => out = "errored" /\ trackers[1].failed /\ trackers[1].aborted
       /\ hungUp => trackers[1].failed
  /\ way = "parts" /\ (\A i \in Both : trackers[i].done \/ trackers[i].failed)
       => overall.done = (\A i \in Both : trackers[i].done) /\ overall.failed = ~overall.done

\* A transfer that is over has no listener on its signal, and a wrapper that is over has
\* read its source to the end or cancelled it (progress.ts 352-357, 1058-1064, 1107-1117).
TransferReleased ==
  /\ ending # None => ~listening
  /\ way \in Wrappers /\ out # "readable" => ~listening /\ source # "open"

ProgressHolds == TypeOK /\ Announced /\ TransferReleased
=============================================================================
