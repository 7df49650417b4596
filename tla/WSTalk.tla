-------------------------------- MODULE WSTalk --------------------------------
(***************************************************************************)
(* What is said over a WSClient: the rooms it joins and leaves, request(), *)
(* waitForOpen() and drain(), over the connection of WSClient, of which    *)
(* only what its callers can tell apart is kept.                           *)
(*                                                                         *)
(* A message counts one against the marks and the buffer.  A server joins, *)
(* leaves and answers what reaches it on the connection it came by, and a  *)
(* matcher knows its own request's answer.  A send that throws is left     *)
(* out.                                                                    *)
(***************************************************************************)
EXTENDS Naturals, Sequences

CONSTANTS Rooms, Requests, Openers, Drainers,
          MaxBuffer, HighMark, LowMark,   \* maxBufferSize, highWaterMark, lowWaterMark
          MaxCalls                        \* bound: calls of the client

VARIABLES keeps,      \* keepRooms
          throttled,  \* maxSendRate is not 0, so that there may be no token
          link,       \* closed, away (connecting or reconnecting), open
          aborted,    \* _aborted
          silent,     \* history: the connection was closed without a word to anybody
          rooms,      \* _rooms
          joined,     \* the rooms the server has this connection in
          buffer,     \* _buffer
          heard,      \* the requests the server has by this connection
          where,      \* where each request, opener and drainer stands
          calls
talkVars == <<keeps, throttled, link, aborted, silent, rooms, joined, buffer, heard, where, calls>>

Askers == Requests \cup Openers
Messages == [kind : {"join", "leave"}, of : Rooms] \cup [kind : {"ask"}, of : Requests]

TypeOK ==
  /\ keeps \in BOOLEAN /\ throttled \in BOOLEAN /\ aborted \in BOOLEAN /\ silent \in BOOLEAN
  /\ link \in {"closed", "away", "open"}
  /\ rooms \subseteq Rooms /\ joined \subseteq Rooms /\ heard \subseteq Requests
  /\ buffer \in Seq(Messages) /\ Len(buffer) <= MaxBuffer
  /\ where \in [Askers \cup Drainers -> {"idle", "early", "waiting", "done", "failed", "late"}]

\* cfg.rooms may name some.
Init ==
  /\ keeps \in BOOLEAN /\ throttled \in BOOLEAN
  /\ link = "closed" /\ aborted = FALSE /\ silent = FALSE
  /\ rooms \in {{}, Rooms} /\ joined = {} /\ buffer = <<>> /\ heard = {}
  /\ where = [a \in Askers \cup Drainers |-> "idle"] /\ calls = 0

----------------------------------------------------------------------------
(* The connection.                                                         *)

Pending == {a \in DOMAIN where : where[a] \in {"early", "waiting"}}

Told(who, what) == where' = [a \in DOMAIN where |-> IF a \in who \cap Pending THEN what ELSE where[a]]

\* Those who asked while nothing was under way now wait for the connection.
Connect ==
  /\ link = "closed" /\ link' = "away" /\ silent' = FALSE
  /\ Told({a \in Askers : where[a] = "early"}, "waiting")
  /\ UNCHANGED <<keeps, throttled, aborted, rooms, joined, buffer, heard, calls>>

\* The rooms a connection that joined those of R is in when the buffer has been sent: of what
\* it says about a room the last counts.
About(i, r) == buffer[i].kind # "ask" /\ buffer[i].of = r
Last(i, r)  == About(i, r) /\ \A j \in DOMAIN buffer : j > i => ~About(j, r)
Replayed(R) ==
  {r \in Rooms : \/ r \in R /\ \A i \in DOMAIN buffer : ~About(i, r)
                 \/ \E i \in DOMAIN buffer : Last(i, r) /\ buffer[i].kind = "join"}

\* onopen: the rooms first, then the buffer, and whoever waits for either.
Opens ==
  /\ link = "away" /\ link' = "open"
  /\ joined' = Replayed(IF keeps THEN rooms ELSE {})
  /\ heard' = {q \in Requests : \E i \in DOMAIN buffer : buffer[i] = [kind |-> "ask", of |-> q]}
  /\ buffer' = <<>>
  /\ Told(Openers \cup Drainers, "done")
  /\ UNCHANGED <<keeps, throttled, aborted, silent, rooms, calls>>

\* The connection is gone, and another will be tried.
Drops ==
  /\ link # "closed" /\ ~aborted /\ link' = "away" /\ joined' = {} /\ heard' = {}
  /\ UNCHANGED <<keeps, throttled, aborted, silent, rooms, buffer, where, calls>>

Ended(who) == link' = "closed" /\ joined' = {} /\ heard' = {} /\ Told(who, "failed")

\* Fault: the requests wait for the next connection.
TellsOpeners == Openers

\* Whom the end of the connection is told: the drainers wait for their timers.
Tells == Askers

\* The server has said goodbye, or no attempt is left.
Ends ==
  /\ link # "closed" /\ Ended(Tells)
  /\ UNCHANGED <<keeps, throttled, aborted, silent, rooms, buffer, calls>>

\* A missed pong when no attempt is left, or a socket that cannot be made.
EndsSilently ==
  /\ link # "closed" /\ Ended({}) /\ silent' = TRUE
  /\ UNCHANGED <<keeps, throttled, aborted, rooms, buffer, calls>>

\* close() and destroy(): the drainers are let go, the others refused.
Close ==
  /\ aborted' = TRUE /\ link' = "closed" /\ joined' = {} /\ heard' = {}
  /\ rooms' = {} /\ buffer' = <<>>
  /\ where' = [a \in DOMAIN where |-> CASE a \in Pending \cap Drainers -> "done"
                                        [] a \in Pending \cap Askers -> "failed"
                                        [] OTHER -> where[a]]
  /\ UNCHANGED <<keeps, throttled, silent, calls>>

----------------------------------------------------------------------------
(* The calls.                                                              *)

Call == calls < MaxCalls /\ calls' = calls + 1

\* Fault: a full buffer refuses what comes.
BufferedNot(m) == IF Len(buffer) >= MaxBuffer THEN buffer ELSE Append(buffer, m)

Buffered(m) == Append(IF Len(buffer) >= MaxBuffer THEN Tail(buffer) ELSE buffer, m)

\* What the server makes of a message.
Reach(m) ==
  /\ joined' = CASE m.kind = "join"  -> joined \cup {m.of}
                 [] m.kind = "leave" -> joined \ {m.of}
                 [] m.kind = "ask"   -> joined
  /\ heard' = IF m.kind = "ask" THEN heard \cup {m.of} ELSE heard

\* A client that was closed once buffers nothing.
Send(m) ==
  \/ /\ link = "open" /\ Len(buffer) < HighMark
     /\ Reach(m)
     /\ UNCHANGED buffer
  \/ /\ link # "open" \/ throttled \/ Len(buffer) >= HighMark
     /\ buffer' = IF aborted THEN buffer ELSE Buffered(m)
     /\ UNCHANGED <<joined, heard>>

Join(r) ==
  /\ Call /\ r \notin rooms /\ rooms' = rooms \cup {r}
  /\ Send([kind |-> "join", of |-> r])
  /\ UNCHANGED <<keeps, throttled, link, aborted, silent, where>>

Leave(r) ==
  /\ Call /\ r \in rooms /\ rooms' = rooms \ {r}
  /\ Send([kind |-> "leave", of |-> r])
  /\ UNCHANGED <<keeps, throttled, link, aborted, silent, where>>

Asked == IF link = "closed" THEN "early" ELSE "waiting"

Request(q) ==
  /\ Call /\ where[q] = "idle" /\ where' = [where EXCEPT ![q] = Asked]
  /\ Send([kind |-> "ask", of |-> q])
  /\ UNCHANGED <<keeps, throttled, link, aborted, silent, rooms>>

WaitForOpen(o) ==
  /\ Call /\ where[o] = "idle"
  /\ where' = [where EXCEPT ![o] = IF link = "open" THEN "done" ELSE Asked]
  /\ UNCHANGED <<keeps, throttled, link, aborted, silent, rooms, joined, buffer, heard>>

Drain(d) ==
  /\ Call /\ where[d] = "idle"
  /\ where' = [where EXCEPT ![d] = CASE link = "closed" -> "failed"
                                     [] link # "closed" /\ Len(buffer) < LowMark -> "done"
                                     [] OTHER -> "waiting"]
  /\ UNCHANGED <<keeps, throttled, link, aborted, silent, rooms, joined, buffer, heard>>

\* The caller takes the buffer, below the low mark.
DrainBuffer ==
  /\ Call /\ buffer # <<>> /\ buffer' = <<>>
  /\ Told(Drainers, "done")
  /\ UNCHANGED <<keeps, throttled, link, aborted, silent, rooms, joined, heard>>

\* A client that was closed once listens to nobody.
Reply(q) ==
  /\ q \in heard /\ link = "open" /\ ~aborted
  /\ heard' = heard \ {q} /\ Told({q}, "done")
  /\ UNCHANGED <<keeps, throttled, link, aborted, silent, rooms, joined, buffer, calls>>

\* Whoever gave a timeout; what was sent stays sent.
TimeOut(a) ==
  /\ a \in Pending /\ Told({a}, "late")
  /\ UNCHANGED <<keeps, throttled, link, aborted, silent, rooms, joined, buffer, heard, calls>>

Next ==
  \/ Connect \/ Opens \/ Drops \/ Ends \/ EndsSilently \/ Close \/ DrainBuffer
  \/ \E r \in Rooms : Join(r) \/ Leave(r)
  \/ \E q \in Requests : Request(q) \/ Reply(q)
  \/ \E o \in Openers : WaitForOpen(o)
  \/ \E d \in Drainers : Drain(d)
  \/ \E a \in Askers \cup Drainers : TimeOut(a)

Spec == Init /\ [][Next]_talkVars

----------------------------------------------------------------------------
\* An open connection is, at the server, in the rooms the client says it is in, whatever was
\* joined and left while there was none and whatever of it the buffer has lost: the rooms are
\* joined anew before the buffer is sent, and the buffer loses its oldest.  Where messages
\* are held back for want of a token this is not so (ws.ts 818-835, 1080-1095, 1352-1364).
RoomsAgree == link = "open" /\ keeps /\ ~throttled => joined = rooms

\* Nobody waits for a connection that is over: when it ends everyone who waited has been told
\* so, unless it ended without a word; and whoever waits for the buffer to drain waits for
\* messages that are in it (ws.ts 528-557, 734-760, 864-880, 1213-1235, 1384-1394).
TalkersWatched ==
  /\ link = "closed" /\ ~silent => \A a \in Askers : where[a] # "waiting"
  /\ \A d \in Drainers : where[d] = "waiting" => Len(buffer) >= LowMark
=============================================================================
