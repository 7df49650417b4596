----------------------------- MODULE H2Exchange -----------------------------
(***************************************************************************)
(* One call of NodeHTTP2Transport.send: the HTTP/2 stream of each hop with *)
(* its timer and its listener on the caller's signal, the redirects the    *)
(* transport follows by itself, and the fall back to HTTP/1.1 by fetch.    *)
(* Where the sessions come from is in SessionPool; here one is got or not. *)
(*                                                                         *)
(* A server may act on a request as soon as it has been sent.  Headers,    *)
(* payloads, proxies and the node:http path are left out.                  *)
(***************************************************************************)
EXTENDS Naturals

CONSTANTS MaxHops,   \* MAX_HOPS, 10 in the code
          None

VARIABLES ask,         \* the request: may it be repeated, its body, redirect and signal
          place,       \* how far send() has come
          hop, kept,   \* the hop, and whether it still is the request itself, method and all
          stream,      \* none, open, broken, silent (closed without an event) or dead
          timer,       \* requestTimeout of the stream, or of fetch: off, set, fired
          listening,   \* onAbort is registered on the signal
          cancelled,   \* the caller's signal has aborted
          taken,       \* the body has been read
          http1Only,   \* the origin is in _http1OnlyOrigins
          result,
          acted        \* history: how often a server may have acted on the request
h2Vars == <<ask, place, hop, kept, stream, timer, listening, cancelled, taken, http1Only,
            result, acted>>

Asks == [safe : BOOLEAN, body : {"none", "bytes", "stream"}, signal : BOOLEAN,
         redirect : {"follow", "manual", "error"}]

TypeOK ==
  /\ ask \in Asks
  /\ place \in {"session", "waiting", "draining", "http1", "fetching", "ended"}
  /\ hop \in 0..MaxHops /\ kept \in BOOLEAN /\ acted \in 0..MaxHops + 1
  /\ stream \in {"none", "open", "broken", "silent", "dead"} /\ timer \in {"off", "set", "fired"}
  /\ listening \in BOOLEAN /\ cancelled \in BOOLEAN /\ taken \in BOOLEAN
  /\ http1Only \in BOOLEAN
  /\ result \in {None, "response", "EABORT", "ETIMEOUT", "ENETWORK", "EVALIDATION"}

\* A safe request has no body.
Init ==
  /\ ask \in {q \in Asks : q.safe => q.body = "none"}
  /\ http1Only \in BOOLEAN
  /\ place = IF http1Only THEN "http1" ELSE "session"
  /\ hop = 0 /\ kept = TRUE /\ stream = "none" /\ timer = "off" /\ listening = FALSE
  /\ cancelled = FALSE /\ taken = FALSE /\ result = None /\ acted = 0

----------------------------------------------------------------------------
End(why) == place' = "ended" /\ result' = why

\* The body of a stream can be taken once, by whichever hop sends it.
Sends  == kept /\ ask.body # "none"
Acted  == acted' = IF kept THEN acted + 1 ELSE acted
Timers(t, l) == timer' = t /\ listening' = l

\* send(): an error of HTTP/2, in the connection or in a stream of any hop, sends the
\* original request once more by HTTP/1.1, unless its body cannot be replayed.
Fallback(why, h2) ==
  IF h2 /\ ask.body # "stream"
    THEN http1Only' = TRUE /\ place' = "http1" /\ UNCHANGED result
    ELSE End(why) /\ UNCHANGED http1Only

SessionFails(h2) ==
  /\ place = "session"
  /\ Fallback("ENETWORK", h2)
  /\ UNCHANGED <<ask, hop, kept, stream, timer, listening, cancelled, taken, acted>>

\* A signal that has aborted by now will not tell the listener.  A consumed body destroys
\* the stream before the server has the whole request.
OpenStream ==
  /\ place = "session"
  /\ place' = "waiting"
  /\ stream' = IF Sends /\ ask.body = "stream" /\ taken THEN "broken" ELSE "open"
  /\ Timers("set", ask.signal /\ ~cancelled)
  /\ taken' = (taken \/ Sends)
  /\ IF stream' = "open" THEN Acted ELSE UNCHANGED acted
  /\ UNCHANGED <<ask, hop, kept, cancelled, http1Only, result>>

\* The "response" event, before the body has been read.
Respond(redirects) ==
  /\ place = "waiting" /\ stream = "open"
  /\ Timers("off", FALSE)
  /\ CASE ask.signal /\ cancelled -> stream' = "dead" /\ End("EABORT")
       [] ~(ask.signal /\ cancelled) /\ redirects /\ ask.redirect = "error" ->
            stream' = "dead" /\ End("ENETWORK")
       [] ~(ask.signal /\ cancelled) /\ redirects /\ ask.redirect = "follow" ->
            place' = "draining" /\ UNCHANGED <<stream, result>>
       [] OTHER -> UNCHANGED stream /\ End("response")
  /\ UNCHANGED <<ask, hop, kept, cancelled, taken, http1Only, acted>>

\* The "error" event before the answer.
StreamFails(h2) ==
  /\ place = "waiting" /\ stream \in (IF h2 THEN {"open"} ELSE {"open", "broken"})
  /\ Timers("off", FALSE) /\ stream' = "dead"
  /\ Fallback(IF ask.signal /\ cancelled THEN "EABORT" ELSE "ENETWORK", h2)
  /\ UNCHANGED <<ask, hop, kept, cancelled, taken, acted>>

\* A stream that is cancelled with its session closes without an error.
StreamCloses ==
  /\ stream = "open" /\ place \in {"waiting", "draining"}
  /\ stream' = "silent"
  /\ UNCHANGED <<ask, place, hop, kept, timer, listening, cancelled, taken, http1Only, result,
                 acted>>

TimeOut ==
  /\ place = "waiting" /\ timer = "set"
  /\ Timers("fired", FALSE) /\ stream' = "dead" /\ End("ETIMEOUT")
  /\ UNCHANGED <<ask, hop, kept, cancelled, taken, http1Only, acted>>

\* What fetch fails with after its timer has fired.
Late(why) == IF timer = "fired" THEN "ETIMEOUT" ELSE why

\* The caller's signal, which the listener of the stream hears, or fetch.
Abort ==
  /\ ask.signal /\ ~cancelled
  /\ cancelled' = TRUE
  /\ IF listening
       THEN /\ End(Late("EABORT")) /\ Timers("off", FALSE)
            /\ stream' = IF place = "waiting" THEN "dead" ELSE stream
       ELSE UNCHANGED <<place, result, timer, listening, stream>>
  /\ UNCHANGED <<ask, hop, kept, taken, http1Only, acted>>

\* The body of a redirect is read to its end, with neither timer nor signal, and however
\* it ends the next hop follows: to a target that is refused, or with the method kept or
\* turned into GET without a body.
Drained(target, keeps) ==
  /\ place = "draining"
  /\ stream' = "none"
  /\ CASE target = "refused" -> End("EVALIDATION") /\ UNCHANGED <<hop, kept>>
       [] target # "refused" /\ hop + 1 = MaxHops -> End("ENETWORK") /\ UNCHANGED <<hop, kept>>
       [] OTHER -> /\ place' = "session" /\ hop' = hop + 1
                   /\ kept' = (kept /\ keeps) /\ UNCHANGED result
  /\ UNCHANGED <<ask, timer, listening, cancelled, taken, http1Only, acted>>

\* FetchTransport.send: its timer aborts a controller of its own, which fetch is given only
\* if the caller has no signal.  An aborted signal stops fetch before it sends.
Fetch ==
  /\ place = "http1"
  /\ IF ask.signal /\ cancelled
       THEN End("EABORT") /\ UNCHANGED <<timer, listening, taken, acted>>
       ELSE /\ place' = "fetching" /\ Timers("set", ask.signal)
            /\ taken' = (taken \/ ask.body # "none") /\ acted' = acted + 1
            /\ UNCHANGED result
  /\ UNCHANGED <<ask, hop, kept, stream, cancelled, http1Only>>

FetchSettles(why) ==
  /\ place = "fetching"
  /\ Timers("off", FALSE)
  /\ End(IF why = "response" THEN why ELSE Late(why))
  /\ UNCHANGED <<ask, hop, kept, stream, cancelled, taken, http1Only, acted>>

FetchTimer ==
  /\ place = "fetching" /\ timer = "set"
  /\ IF ask.signal
       THEN timer' = "fired" /\ UNCHANGED <<place, result, listening>>
       ELSE Timers("fired", FALSE) /\ End("ETIMEOUT")
  /\ UNCHANGED <<ask, hop, kept, stream, cancelled, taken, http1Only, acted>>

Next ==
  \/ \E b \in BOOLEAN : SessionFails(b) \/ StreamFails(b) \/ Respond(b)
  \/ OpenStream \/ StreamCloses \/ TimeOut \/ Abort \/ Fetch \/ FetchTimer
  \/ (\E t \in {"allowed", "refused"}, k \in BOOLEAN : Drained(t, k))
  \/ \E w \in {"response", "ENETWORK"} : FetchSettles(w)

Spec == Init /\ [][Next]_h2Vars

----------------------------------------------------------------------------
\* Whoever ended leaves no timer and no listener behind, and a stream that was given up is
\* destroyed; whoever waits for headers over HTTP/2 has a timer, so that a stream that
\* closes without a word is noticed (core.ts 1086-1172).
NothingArmed ==
  /\ place = "ended" => timer # "set" /\ ~listening
  /\ place = "ended" /\ result # "response" => stream # "open"
  /\ place = "waiting" => timer = "set"

\* A body that can be read once is sent once.  Each redirect that keeps the method sends
\* the request once more, and so does the fall back, which an abort, a timeout or a refused
\* redirect never causes (core.ts 888-898, 2109-2152).
BodyOnce ==
  /\ ask.body = "stream" => acted <= 1
  /\ acted <= 1 + hop + (IF http1Only THEN 1 ELSE 0)
  /\ http1Only /\ hop > 0 => ask.body # "stream"
=============================================================================
