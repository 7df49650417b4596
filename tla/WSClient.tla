------------------------------ MODULE WSClient ------------------------------
(***************************************************************************)
(* A reconnecting WebSocket client (class WSClient): dialling, the connect *)
(* timeout, backoff and giving up, the ping and pong timers, the buffer of *)
(* messages sent while there is no connection, the callers that wait for   *)
(* the connection, and the async iterator over what arrives.               *)
(*                                                                         *)
(* The sockets belong to the runtime: they open and close when they like,  *)
(* and what they do matters for as long as the client's handlers are on    *)
(* them.  A handler runs in one step.  A socket's name is used again when  *)
(* nothing refers to it any more.                                          *)
(*                                                                         *)
(* A message counts one against the water mark and the buffer.  A token    *)
(* bucket that may be empty is a choice.  The iterator is modelled for a   *)
(* consumer that has read all that came.  Rooms, request() and drain() are *)
(* not modelled, nor maxReconnects = 0 (for ever), connectTimeoutMs = 0,   *)
(* bufferMessages = false and a WebSocket constructor that throws.         *)
(***************************************************************************)
EXTENDS Naturals, Sequences, FiniteSets

CONSTANTS Callers,        \* the callers of connect()
          Sockets,        \* bound: names for the sockets alive at one time
          MaxReconnects,  \* cfg.maxReconnects
          MaxBuffer,      \* cfg.maxBufferSize
          HighWaterMark,  \* cfg.highWaterMark
          RateLimited,    \* cfg.maxSendRate is not 0
          MaxSends,       \* bound: calls of send()
          None            \* null

ASSUME WSAssumption ==
  /\ IsFiniteSet(Callers)
  /\ IsFiniteSet(Sockets) /\ None \notin Sockets
  /\ MaxReconnects \in Nat \ {0}
  /\ MaxBuffer \in Nat \ {0}
  /\ HighWaterMark \in Nat \ {0}
  /\ RateLimited \in BOOLEAN
  /\ MaxSends \in Nat

VARIABLES state,      \* _state
          ws,         \* _ws
          attempt,    \* _reconnAttempt
          timer,      \* _reconnTimer is set
          aborted,    \* _aborted
          sock,       \* runtime: what each socket is
          attached,   \* the live sockets that carry the client's handlers
          opening,    \* the sockets whose connect timeout runs
          caller,     \* where each caller of connect() stands
          dialled,    \* the socket whose promise a caller was given
          pinger,     \* _pingTimer is set
          leaked,     \* an interval runs that _pingTimer no longer holds
          pongFor,    \* the socket that was pinged when _pongTimer was set
          buffer,     \* _buffer
          iterDone, iterWaiting,   \* _iterDone; _iterWaiter is set
          sends,      \* history: calls of send() so far
          wire,       \* history: the messages handed to open sockets
          held,       \* history: the messages buffered while a socket was open
          discarded,  \* history: the messages evicted, drained or cleared
          sendFailed  \* history: a socket has refused a message
connection == <<state, ws, attempt, timer>>
sockets    == <<sock, attached, opening>>
callers    == <<caller, dialled>>
heartbeat  == <<pinger, leaked, pongFor>>
iterator   == <<iterDone, iterWaiting>>
messages   == <<buffer, sends, wire, held, discarded, sendFailed>>
wsVars     == <<connection, aborted, sockets, callers, heartbeat, iterator, messages>>

\* Types of the variables, with the reconnect attempts and the buffer in their limits.
TypeOK ==
  /\ state \in {"CLOSED", "CONNECTING", "OPEN", "RECONNECTING"}
  /\ ws \in Sockets \cup {None}
  /\ attempt \in 0..MaxReconnects
  /\ timer \in BOOLEAN /\ aborted \in BOOLEAN
  /\ sock \in [Sockets -> {"connecting", "open", "closing", "closed"}]
  /\ attached \subseteq Sockets /\ opening \subseteq Sockets
  /\ caller \in [Callers -> {"idle", "dialling", "waiting", "open", "failed"}]
  /\ dialled \in [Callers -> Sockets \cup {None}]
  /\ pinger \in BOOLEAN /\ leaked \in BOOLEAN
  /\ pongFor \in Sockets \cup {None}
  /\ buffer \in Seq(1..MaxSends) /\ Len(buffer) <= MaxBuffer
  /\ iterDone \in BOOLEAN /\ iterWaiting \in BOOLEAN
  /\ sendFailed \in BOOLEAN
  /\ sends \in 0..MaxSends
  /\ wire \in Seq(1..MaxSends)
  /\ held \subseteq 1..MaxSends /\ discarded \subseteq 1..MaxSends

Init ==
  /\ state = "CLOSED" /\ ws = None /\ attempt = 0 /\ timer = FALSE
  /\ aborted = FALSE
  /\ sock = [s \in Sockets |-> "closed"] /\ attached = {} /\ opening = {}
  /\ caller = [c \in Callers |-> "idle"] /\ dialled = [c \in Callers |-> None]
  /\ pinger = FALSE /\ leaked = FALSE /\ pongFor = None
  /\ buffer = <<>> /\ sends = 0 /\ wire = <<>> /\ held = {} /\ discarded = {}
  /\ iterDone = FALSE /\ iterWaiting = FALSE
  /\ sendFailed = FALSE

----------------------------------------------------------------------------
\* What the handlers are made of.

Elements(q) == {q[i] : i \in 1..Len(q)}
Is(s, what) == s # None /\ sock[s] = what

\* The promise given out for socket s is settled, and with it, if everyone, those
\* of all the callers that wait for the connection.
Answer(s, everyone, o) ==
  caller' = [c \in Callers |->
               IF \/ caller[c] = "dialling" /\ dialled[c] = s
                  \/ caller[c] = "waiting" /\ everyone
                 THEN o ELSE caller[c]]

CanRecon == attempt < MaxReconnects

ScheduleRecon ==
  /\ state' = "RECONNECTING"
  /\ attempt' = attempt + 1
  /\ timer' = TRUE

GiveUp == state' = "CLOSED" /\ UNCHANGED <<attempt, timer>>

\* Fault: the client forgets its socket without closing it.
HangUpQuietly == ws' = None /\ UNCHANGED <<attached, sock>>

\* The client takes its handlers off its socket and closes it.
HangUp ==
  /\ attached' = attached \ {ws}
  /\ sock' = [s \in Sockets |-> IF s = ws THEN "closed" ELSE sock[s]]
  /\ ws' = None

StartPing == pinger' = TRUE /\ leaked' = (leaked \/ pinger) /\ UNCHANGED pongFor

\* Fault: a connection that has ended leaves its pong timer behind.
StopPingOnly == pinger' = FALSE /\ UNCHANGED <<leaked, pongFor>>

StopPing == pinger' = FALSE /\ pongFor' = None /\ UNCHANGED leaked

TerminateIter == iterDone' = TRUE /\ iterWaiting' = FALSE

\* A socket name nothing refers to.
Unused == {s \in Sockets : sock[s] = "closed" /\ s \notin attached \cup opening /\ s # pongFor}

\* _doConnect(): a socket is made and carries the handlers.
Dial(s) ==
  /\ s \in Unused
  /\ s = CHOOSE t \in Unused : TRUE
  /\ sock' = [sock EXCEPT ![s] = "connecting"]
  /\ attached' = attached \cup {s}
  /\ opening' = opening \cup {s}
  /\ ws' = s
  /\ state' = "CONNECTING"

----------------------------------------------------------------------------
\* connect() and close().

ConnectOpen(c) ==
  /\ state = "OPEN"
  /\ caller' = [caller EXCEPT ![c] = "open"]
  /\ UNCHANGED <<connection, sockets, dialled>>

ConnectWait(c) ==
  /\ state \in {"CONNECTING", "RECONNECTING"}
  /\ caller' = [caller EXCEPT ![c] = "waiting"]
  /\ UNCHANGED <<connection, sockets, dialled>>

ConnectDial(c, s) ==
  /\ state = "CLOSED"
  /\ Dial(s)
  /\ caller' = [caller EXCEPT ![c] = "dialling"]
  /\ dialled' = [dialled EXCEPT ![c] = s]
  /\ UNCHANGED <<attempt, timer>>

Connect(c) ==
  /\ caller[c] = "idle"
  /\ ConnectOpen(c) \/ ConnectWait(c) \/ \E s \in Sockets : ConnectDial(c, s)
  /\ UNCHANGED <<aborted, heartbeat, iterator, messages>>

\* close(), destroy() or the caller's signal.  The connect timeout runs on, and
\* connect() may be called again.
Close ==
  /\ aborted' = TRUE
  /\ StopPing
  /\ HangUp
  /\ timer' = FALSE
  /\ state' = "CLOSED"
  /\ buffer' = <<>>
  /\ discarded' = discarded \cup Elements(buffer)
  /\ TerminateIter
  /\ Answer(None, TRUE, "failed")
  /\ UNCHANGED <<attempt, opening, dialled, sends, wire, held, sendFailed>>

----------------------------------------------------------------------------
\* The events of a socket.

\* Fault: what has been flushed stays in the buffer.
FlushAgain ==
  /\ wire' = IF ws # None /\ sock'[ws] = "open" THEN wire \o buffer ELSE wire
  /\ UNCHANGED <<buffer, sends, held, discarded, sendFailed>>

\* _flushBuf(): whatever is buffered goes to _ws, whether it takes it or not.
Flush ==
  /\ wire' = IF ws # None /\ sock'[ws] = "open" THEN wire \o buffer ELSE wire
  /\ buffer' = <<>>
  /\ UNCHANGED <<sends, held, discarded, sendFailed>>

\* onopen; a socket whose connect promise has been settled is not used.
OnOpen(s) ==
  /\ sock[s] = "connecting" /\ s \in attached
  /\ sock' = [sock EXCEPT ![s] = "open"]
  /\ opening' = opening \ {s}
  /\ IF s \in opening
       THEN /\ state' = "OPEN"
            /\ attempt' = 0
            /\ StartPing
            /\ Flush
            /\ Answer(s, TRUE, "open")
       ELSE UNCHANGED <<state, attempt, heartbeat, messages, caller>>
  /\ UNCHANGED <<ws, timer, aborted, attached, dialled, iterator>>

\* What onclose does first, whatever the reason.
OnClose(s) ==
  /\ s \in attached
  /\ sock' = [sock EXCEPT ![s] = "closed"]
  /\ attached' = attached \ {s}
  /\ opening' = opening \ {s}
  /\ StopPing
  /\ UNCHANGED <<ws, aborted, dialled, messages>>

\* The end was asked for: by the server (code 1000 or 1001), or by this side.
OnCloseFinal(s) ==
  /\ sock[s] \in {"open", "closing"} \/ aborted
  /\ OnClose(s)
  /\ GiveUp
  /\ TerminateIter
  /\ Answer(s, TRUE, "failed")

OnCloseRecon(s) ==
  /\ ~aborted /\ CanRecon
  /\ OnClose(s)
  /\ ScheduleRecon
  /\ Answer(s, FALSE, "failed")
  /\ UNCHANGED iterator

\* Fault: only the caller that dialled hears that the client has given up.
OnCloseGiveUpAlone(s) ==
  /\ ~aborted /\ ~CanRecon
  /\ OnClose(s)
  /\ GiveUp
  /\ TerminateIter
  /\ Answer(s, FALSE, "failed")

OnCloseGiveUp(s) ==
  /\ ~aborted /\ ~CanRecon
  /\ OnClose(s)
  /\ GiveUp
  /\ TerminateIter
  /\ Answer(s, TRUE, "failed")

OnMessage(s) ==
  /\ sock[s] = "open" /\ s \in attached /\ ~aborted
  /\ iterWaiting
  /\ iterWaiting' = FALSE
  /\ UNCHANGED <<connection, aborted, sockets, callers, heartbeat, iterDone, messages>>

----------------------------------------------------------------------------
\* Timers.

ConnectTimeout(s) ==
  /\ s \in opening
  /\ opening' = opening \ {s}
  /\ HangUp
  /\ \/ /\ ~aborted /\ CanRecon
        /\ ScheduleRecon
        /\ Answer(s, FALSE, "failed")
     \/ /\ aborted \/ ~CanRecon
        /\ GiveUp
        /\ Answer(s, TRUE, "failed")
  /\ UNCHANGED <<aborted, dialled, heartbeat, iterator, messages>>

\* The reconnect timer fires.
Redial ==
  /\ timer /\ ~aborted
  /\ timer' = FALSE
  /\ \E s \in Sockets : Dial(s)
  /\ UNCHANGED <<attempt, aborted, callers, heartbeat, iterator, messages>>

Ping ==
  /\ pinger \/ leaked
  /\ Is(ws, "open")
  /\ pongFor' = ws
  /\ UNCHANGED <<connection, aborted, sockets, callers, pinger, leaked, iterator, messages>>

\* A pong on any connection will do; a client that was closed once hears none.
Pong ==
  /\ pongFor # None /\ ~aborted
  /\ \E s \in attached : sock[s] = "open"
  /\ pongFor' = None
  /\ UNCHANGED <<connection, aborted, sockets, callers, pinger, leaked, iterator, messages>>

PongTimeout ==
  /\ pongFor # None
  /\ pongFor' = None
  /\ HangUp
  /\ IF ~aborted /\ CanRecon THEN ScheduleRecon ELSE GiveUp
  /\ UNCHANGED <<aborted, opening, callers, pinger, leaked, iterator, messages>>

----------------------------------------------------------------------------
\* send(), and the consumer of the iterator.

Backpressured == Len(buffer) >= HighWaterMark

\* _bufferMessage(): a full buffer loses its oldest message.
Buffered(m) ==
  /\ buffer' = Append(IF Len(buffer) >= MaxBuffer THEN Tail(buffer) ELSE buffer, m)
  /\ discarded' = IF Len(buffer) >= MaxBuffer THEN discarded \cup {Head(buffer)} ELSE discarded
  /\ held' = IF Is(ws, "open") THEN held \cup {m} ELSE held
  /\ UNCHANGED <<wire, sendFailed>>

\* No connection, no token, or too much in the buffer already.
SendBuffered(m) ==
  /\ RateLimited \/ Backpressured \/ ~Is(ws, "open")
  /\ IF aborted THEN discarded' = discarded \cup {m} /\ UNCHANGED <<buffer, wire, held, sendFailed>>
                ELSE Buffered(m)
  /\ UNCHANGED <<connection, sockets>>

SendNow(m) ==
  /\ ~Backpressured /\ Is(ws, "open")
  /\ wire' = Append(wire, m)
  /\ UNCHANGED <<connection, sockets, buffer, held, discarded, sendFailed>>

\* The socket throws (bound: once): it is closed with its handlers on, and forgotten.
SendThrows(m) ==
  /\ ~sendFailed
  /\ ~Backpressured /\ Is(ws, "open")
  /\ sendFailed' = TRUE
  /\ sock' = [sock EXCEPT ![ws] = "closing"]
  /\ ws' = None
  /\ IF ~aborted /\ CanRecon THEN ScheduleRecon ELSE UNCHANGED <<state, attempt, timer>>
  /\ UNCHANGED <<attached, opening, buffer, wire, held, discarded>>

Send ==
  /\ sends < MaxSends
  /\ sends' = sends + 1
  /\ SendBuffered(sends + 1) \/ SendNow(sends + 1) \/ SendThrows(sends + 1)
  /\ UNCHANGED <<aborted, callers, heartbeat, iterator>>

DrainBuffer ==
  /\ buffer # <<>>
  /\ buffer' = <<>>
  /\ discarded' = discarded \cup Elements(buffer)
  /\ UNCHANGED <<connection, aborted, sockets, callers, heartbeat, iterator, sends, wire, held, sendFailed>>

\* next(): the one consumer waits, unless the iterator is done.
IterNext ==
  /\ ~iterDone /\ ~iterWaiting
  /\ iterWaiting' = TRUE
  /\ UNCHANGED <<connection, aborted, sockets, callers, heartbeat, iterDone, messages>>
----------------------------------------------------------------------------
\* The event by which a socket ends.
SocketEnds(s) == OnCloseFinal(s) \/ OnCloseRecon(s) \/ OnCloseGiveUp(s)

Next ==
  \/ \E c \in Callers : Connect(c)
  \/ \E s \in Sockets : OnOpen(s) \/ SocketEnds(s) \/ OnMessage(s) \/ ConnectTimeout(s)
  \/ Close \/ Redial \/ Ping \/ Pong \/ PongTimeout
  \/ Send \/ DrainBuffer \/ IterNext

\* Timers fire, and a socket that is closing does close.
Fairness ==
  /\ WF_wsVars(Redial)
  /\ \A s \in Sockets : WF_wsVars(ConnectTimeout(s))
  /\ \A s \in Sockets : WF_wsVars(sock[s] = "closing" /\ SocketEnds(s))

Spec     == Init /\ [][Next]_wsVars
FairSpec == Spec /\ Fairness

----------------------------------------------------------------------------
\* Properties.  A socket that throws out of send() is closed with its handlers
\* on and ends when it likes, so after that some of them do not hold.

\* There is one connection: no socket but the client's own carries its handlers,
\* whatever timed out, closed or was redialled, so nothing is received twice.
OneConnection == sendFailed \/ attached \subseteq {ws}

\* The public state is true of the socket, and a client that says it is
\* reconnecting has a timer that will.
StateHonest ==
  sendFailed \/
    /\ state = "OPEN" <=> Is(ws, "open")
    /\ state = "CONNECTING" <=> (Is(ws, "connecting") /\ ws \in opening)
    /\ state = "RECONNECTING" <=> timer

\* One connection, and the state that is told of it (ws.ts 933-1267).
OneHonestConnection == TypeOK /\ OneConnection /\ StateHonest

\* A message is handed to a socket once, across all reconnects, in the order of
\* the calls unless it was held back while others could pass, and none is lost
\* but those the buffer discards.
MessagesKept ==
  /\ \A i, j \in 1..Len(wire) :
        i < j => wire[i] # wire[j] /\ (wire[i] > wire[j] => wire[j] \in held)
  /\ sendFailed \/ 1..sends \subseteq Elements(buffer) \cup Elements(wire) \cup discarded

\* The pong timer belongs to the connection in use: a missing pong of an earlier
\* one never closes its successor.  (Once closed and connected again, the connect
\* timeout of the earlier life can hang up the new connection and leave the timer.)
PongTimerCurrent == sendFailed \/ aborted \/ (pongFor # None => pongFor = ws /\ state = "OPEN")

\* connect() settles: a caller gets a connection or hears that there will be none.
ConnectAnswered ==
  \A c \in Callers : caller[c] \in {"dialling", "waiting"} ~> caller[c] \in {"open", "failed"}

=============================================================================
