------------------------------ MODULE SSEClient ------------------------------
(***************************************************************************)
(* The reconnecting event stream (class SSEClient): the generator _stream  *)
(* with its connections, its read loop, the watchdog and the backoff; the  *)
(* consumer that takes events, leaves, or comes back; close(), the signal  *)
(* of the configuration and that of a collect().                           *)
(*                                                                         *)
(* The server keeps the events 1..MaxEvents, the number of an event being  *)
(* its id, and resumes after the id it is asked for.  It cuts its answer   *)
(* into chunks and breaks off where it likes.  Events without an id, the   *)
(* retry field and the lengths of the delays are left out.                 *)
(***************************************************************************)
EXTENDS Naturals, Sequences

CONSTANTS Streams,        \* the generators the client is asked for
          MaxReconnects,  \* cfg.maxReconnects, not 0
          Reconnect,      \* cfg.reconnect
          MaxEvents,      \* bound: events the server has
          MaxStarts,      \* bound: generators begun in all
          None            \* null

VARIABLES closed,       \* _closed
          aborted,      \* cfg.signal.aborted
          controller,   \* the stream whose controller is _streamController
          torn,         \* the streams whose own controller has aborted
          connected,    \* health.connected
          lastEventId,  \* health.lastEventId, 0 for null
          reconnects,   \* health.totalReconnects
          at,           \* where each generator stands
          next,         \* server: the event whose text it sends next
          part,         \* the parser holds the beginning of event next
          pending,      \* events of the chunk that are still to be yielded
          dog,          \* heartbeatTimer: off, set, or it has cancelled the reader
          starts,       \* history: generators begun so far
          given         \* history: the whole events given to consumers
client  == <<closed, aborted, controller, torn, connected>>
stream  == <<next, part, pending, dog>>
sseVars == <<client, lastEventId, reconnects, at, stream, starts, given>>

TypeOK ==
  /\ closed \in BOOLEAN /\ aborted \in BOOLEAN /\ connected \in BOOLEAN
  /\ controller \in Streams \cup {None} /\ torn \subseteq Streams
  /\ lastEventId \in 0..MaxEvents /\ reconnects \in 0..MaxReconnects
  /\ at \in [Streams -> {"idle", "connecting", "reading", "yielding", "flushing",
                         "backoff", "ended", "failed"}]
  /\ next \in [Streams -> 1..(MaxEvents + 1)] /\ part \in [Streams -> BOOLEAN]
  /\ pending \in [Streams -> 0..MaxEvents]
  /\ dog \in [Streams -> {"off", "set", "bitten"}]
  /\ starts \in 0..MaxStarts /\ given \in Seq(1..MaxEvents)

Init ==
  /\ closed = FALSE /\ aborted = FALSE /\ controller = None /\ torn = {}
  /\ connected = FALSE /\ lastEventId = 0 /\ reconnects = 0
  /\ at = [s \in Streams |-> "idle"]
  /\ next = [s \in Streams |-> 1] /\ part = [s \in Streams |-> FALSE]
  /\ pending = [s \in Streams |-> 0] /\ dog = [s \in Streams |-> "off"]
  /\ starts = 0 /\ given = <<>>

----------------------------------------------------------------------------
\* The loop of the generator.

Go(s, place) == at' = [at EXCEPT ![s] = place]

\* The signals that the reads and the backoff of stream s are raced against.
\* Fault: the stream's own controller is not one of them.
StoppedBySignal(s) == aborted

Stopped(s) == aborted \/ s \in torn

\* The conditions at the top of the loop: the controller is the latest one.
MayConnect(s) ==
  /\ ~closed /\ ~Stopped(s)
  /\ controller # None => controller \notin torn

\* The loop comes round: the generator ends or asks for a connection.
Again(s) == Go(s, IF MayConnect(s) THEN "connecting" ELSE "ended")

\* The consumer asks for the first event of a generator.
Start(s) ==
  /\ at[s] \in {"idle", "ended", "failed"}
  /\ starts < MaxStarts
  /\ starts' = starts + 1
  /\ controller' = s /\ torn' = torn \ {s}
  /\ Go(s, IF closed \/ aborted THEN "ended" ELSE "connecting")
  /\ connected' = (connected /\ ~closed /\ ~aborted)
  /\ UNCHANGED <<closed, aborted, lastEventId, reconnects, stream, given>>

\* fetch() answers with an event stream: it resumes after the id it was asked for.
Connect(s) ==
  /\ at[s] = "connecting" /\ ~aborted
  /\ connected' = TRUE
  /\ Go(s, "reading")
  /\ next' = [next EXCEPT ![s] = lastEventId + 1]
  /\ part' = [part EXCEPT ![s] = FALSE]
  /\ pending' = [pending EXCEPT ![s] = 0]
  /\ dog' = [dog EXCEPT ![s] = "set"]
  /\ UNCHANGED <<closed, aborted, controller, torn, lastEventId, reconnects, starts, given>>

\* What follows a connection that has ended: another one after a backoff, if the
\* configuration has one left.
Retry(s, otherwise) ==
  \/ /\ Reconnect /\ reconnects < MaxReconnects
     /\ reconnects' = reconnects + 1
     /\ Go(s, "backoff")
  \/ /\ Reconnect /\ reconnects = MaxReconnects
     /\ Go(s, "failed") /\ UNCHANGED reconnects
  \/ /\ ~Reconnect
     /\ Go(s, otherwise) /\ UNCHANGED reconnects

\* fetch() or a read rejects, or the response is refused: the catch block.
Fail(s) ==
  /\ at[s] \in {"connecting", "reading"}
  /\ connected' = FALSE
  /\ dog' = [dog EXCEPT ![s] = "off"]
  /\ \/ aborted /\ Go(s, "ended") /\ UNCHANGED reconnects
     \/ ~aborted /\ Retry(s, "failed")
  /\ UNCHANGED <<closed, aborted, controller, torn, lastEventId, next, part, pending,
                 starts, given>>

\* The server forbids: 401, 403 or 404.
Forbid(s) ==
  /\ at[s] = "connecting" /\ ~aborted
  /\ connected' = FALSE
  /\ Go(s, "failed")
  /\ UNCHANGED <<closed, aborted, controller, torn, lastEventId, reconnects, stream,
                 starts, given>>

\* The generator yields the first event that is pending, of n.
\* Fault: the id is remembered for all the events of the chunk at once.
GiveChunk(s, e, n) ==
  /\ lastEventId' = e + n - 1
  /\ given' = Append(given, e)
  /\ pending' = [pending EXCEPT ![s] = n - 1]
  /\ dog' = [dog EXCEPT ![s] = "set"]
  /\ Go(s, "yielding")

Give(s, e, n) ==
  /\ lastEventId' = e
  /\ given' = Append(given, e)
  /\ pending' = [pending EXCEPT ![s] = n - 1]
  /\ dog' = [dog EXCEPT ![s] = "set"]
  /\ Go(s, "yielding")

\* A chunk arrives with n whole events and perhaps the beginning of another.
Receive(s, n, rest) ==
  /\ at[s] = "reading" /\ ~Stopped(s) /\ dog[s] # "bitten"
  /\ next[s] + n - 1 <= MaxEvents
  /\ rest => next[s] + n <= MaxEvents
  /\ n = 0 => rest
  /\ next' = [next EXCEPT ![s] = @ + n]
  /\ part' = [part EXCEPT ![s] = rest]
  /\ IF n = 0 THEN UNCHANGED <<lastEventId, given, pending, dog, at>>
              ELSE Give(s, next[s], n)
  /\ UNCHANGED <<client, reconnects, starts>>

\* The consumer asks again: the rest of the chunk, then the next read.
Ask(s) ==
  /\ at[s] = "yielding"
  /\ IF pending[s] > 0
       THEN Give(s, next[s] - pending[s], pending[s])
       ELSE Go(s, "reading") /\ UNCHANGED <<lastEventId, given, pending, dog>>
  /\ UNCHANGED <<client, reconnects, next, part, starts>>

\* The body ends, or the reader was cancelled: what the parser holds is given away,
\* unless the stream was stopped, and is not remembered as the last event.
EndOfBody(s) ==
  /\ at[s] = "reading" /\ ~Stopped(s)
  /\ dog' = [dog EXCEPT ![s] = "off"]
  /\ IF part[s] THEN Go(s, "flushing") /\ UNCHANGED <<connected, reconnects>>
                ELSE connected' = FALSE /\ Retry(s, "ended")
  /\ part' = [part EXCEPT ![s] = FALSE]
  /\ UNCHANGED <<closed, aborted, controller, torn, lastEventId, next, pending, starts,
                 given>>

\* A read is raced against the signals, and a stopped stream takes the same way on
\* as one that the server has ended.
StopReading(s) ==
  /\ at[s] = "reading" /\ Stopped(s)
  /\ dog' = [dog EXCEPT ![s] = "off"]
  /\ connected' = FALSE
  /\ Retry(s, "ended")
  /\ UNCHANGED <<closed, aborted, controller, torn, lastEventId, next, part, pending,
                 starts, given>>

\* The consumer asks again after the incomplete event.
AskFlushed(s) ==
  /\ at[s] = "flushing"
  /\ connected' = FALSE
  /\ Retry(s, "ended")
  /\ UNCHANGED <<closed, aborted, controller, torn, lastEventId, stream, starts, given>>

\* The backoff ends, by its timer or by a signal.
Wake(s) ==
  /\ at[s] = "backoff"
  /\ IF Stopped(s) THEN Go(s, "ended") ELSE Again(s)
  /\ connected' = (connected /\ at'[s] # "ended")
  /\ UNCHANGED <<closed, aborted, controller, torn, lastEventId, reconnects, stream, starts,
                 given>>

\* The consumer leaves the loop over the stream: return() runs the inner finally.
Leave(s) ==
  /\ at[s] \in {"yielding", "flushing"}
  /\ Go(s, "ended")
  /\ dog' = [dog EXCEPT ![s] = "off"]
  /\ UNCHANGED <<client, lastEventId, reconnects, next, part, pending, starts, given>>

----------------------------------------------------------------------------
\* The watchdog and the ways to stop.

\* No event for heartbeatTimeoutMs, or the consumer was slow: the reader is cancelled.
Watchdog(s) ==
  /\ dog[s] = "set"
  /\ dog' = [dog EXCEPT ![s] = "bitten"]
  /\ UNCHANGED <<client, lastEventId, reconnects, at, next, part, pending, starts, given>>

Close ==
  /\ ~closed
  /\ closed' = TRUE
  /\ torn' = IF controller = None THEN torn ELSE torn \cup {controller}
  /\ controller' = None
  /\ connected' = FALSE
  /\ UNCHANGED <<aborted, lastEventId, reconnects, at, stream, starts, given>>

\* The signal that a collect() was given aborts, which aborts the latest controller.
AbortCollect ==
  /\ controller # None /\ controller \notin torn
  /\ torn' = torn \cup {controller}
  /\ UNCHANGED <<closed, aborted, controller, connected, lastEventId, reconnects, at, stream,
                 starts, given>>

AbortConfig ==
  /\ ~aborted
  /\ aborted' = TRUE
  /\ UNCHANGED <<closed, controller, torn, connected, lastEventId, reconnects, at, stream,
                 starts, given>>

Next ==
  \/ \E s \in Streams :
       \/ Start(s) \/ Connect(s) \/ Fail(s) \/ Forbid(s)
       \/ \E n \in 0..MaxEvents, rest \in BOOLEAN : Receive(s, n, rest)
       \/ Ask(s) \/ EndOfBody(s) \/ StopReading(s) \/ AskFlushed(s)
       \/ Wake(s) \/ Leave(s) \/ Watchdog(s)
  \/ Close \/ AbortCollect \/ AbortConfig

\* A fetch ends when its signal, the configuration's, has aborted; a read that was given up
\* ends, a backoff's timer fires, and a consumer goes on asking (or leaves).
Cancelled(s) == at[s] = "connecting" /\ aborted /\ Fail(s)
GoOn(s)      == Ask(s) \/ AskFlushed(s)
Fairness ==
  \A s \in Streams : /\ WF_sseVars(Cancelled(s)) /\ WF_sseVars(StopReading(s))
                     /\ WF_sseVars(GoOn(s)) /\ WF_sseVars(Wake(s))

Spec     == Init /\ [][Next]_sseVars
FairSpec == Spec /\ Fairness

----------------------------------------------------------------------------
Live(s) == at[s] \notin {"idle", "ended", "failed"}

\* Against a server that resumes, the whole events that a consumer is given are the
\* server's, each once and in order, over all the reconnects, broken answers, bites
\* of the watchdog, consumers that leave in the middle of a chunk and streams begun
\* again (Last-Event-ID, sse.ts 521 and 612).  It holds for one stream at a time.
NothingSkipped == given = [i \in 1..Len(given) |-> i]

\* A stream whose controller was aborted, or whose configuration's signal was, ends: no read
\* and no backoff keeps it (sse.ts 594, 695).  But a fetch that waits for its answer does, which
\* close() does not abort: it is given the signal of the configuration only (sse.ts 532).
StoppedEnds ==
  \A s \in Streams : \/ []<>~(Live(s) /\ (aborted \/ s \in torn))
                     \/ <>[](at[s] = "connecting" /\ ~aborted)
=============================================================================
