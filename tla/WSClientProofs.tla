--------------------------- MODULE WSClientProofs ---------------------------
(***************************************************************************)
(* Proofs about the WebSocket client, for any callers, sockets, limits and *)
(* numbers of messages.                                                    *)
(*                                                                         *)
(* The connection (Joined): while no send has thrown, the handlers are on  *)
(* the client's own socket, its connect timeout runs as long as it is      *)
(* connecting, and the timeouts of other sockets are left over from a      *)
(* close(), after which nothing is scheduled any more.  The messages       *)
(* (InOrder): the buffer is in the order of the calls, and what is in it   *)
(* while a socket is open has been held back there.                        *)
(***************************************************************************)
EXTENDS WSClient, SequenceTheorems, TLAPS

\* A socket of the client that is connecting has its timeout.
TimeoutRuns == Is(ws, "connecting") => ws \in opening

\* The handlers and timeouts, beside the socket and the state.
Joined ==
  /\ attached \subseteq {ws}
  /\ \A s \in attached : sock[s] \in {"connecting", "open"}
                         /\ (s \in opening <=> sock[s] = "connecting")
  /\ ~aborted => opening \subseteq attached
  /\ aborted => ~timer
  /\ state = "OPEN" <=> Is(ws, "open")
  /\ state = "CONNECTING" <=> (Is(ws, "connecting") /\ ws \in opening)
  /\ state = "RECONNECTING" <=> timer
  /\ aborted \/ (pongFor # None => pongFor = ws /\ state = "OPEN")

\* The constants, as the provers use them.
LEMMA Limits ==
  /\ MaxReconnects \in Nat /\ 0 \in 0..MaxReconnects
  /\ MaxSends \in Nat /\ 0 \in 0..MaxSends
  /\ MaxBuffer \in Nat /\ MaxBuffer > 0 /\ None \notin Sockets
  /\ <<>> \in Seq(1..MaxSends) /\ Len(<<>>) <= MaxBuffer
  BY WSAssumption DEF WSAssumption

ConnInv == TypeOK /\ TimeoutRuns /\ (sendFailed \/ Joined)

LEMMA InitConn == Init => ConnInv
<1>. SUFFICES ASSUME Init PROVE ConnInv
  OBVIOUS
<1>1. TypeOK
  BY Limits DEF Init, TypeOK
<1>2. Joined /\ TimeoutRuns
  BY Limits DEF Init, Joined, TimeoutRuns, Is
<1>. QED  BY <1>1, <1>2 DEF ConnInv

----------------------------------------------------------------------------
(* The types.                                                              *)

LEMMA AnswerType ==
  ASSUME TypeOK, NEW s, NEW e \in BOOLEAN, NEW o \in {"open", "failed"}, Answer(s, e, o)
  PROVE  caller' \in [Callers -> {"idle", "dialling", "waiting", "open", "failed"}]
  BY DEF TypeOK, Answer

LEMMA HangUpType ==
  ASSUME TypeOK, HangUp
  PROVE  /\ sock' \in [Sockets -> {"connecting", "open", "closing", "closed"}]
         /\ attached' \subseteq Sockets /\ ws' \in Sockets \cup {None}
  BY DEF TypeOK, HangUp

LEMMA DialType ==
  ASSUME TypeOK, NEW s \in Sockets, Dial(s)
  PROVE  /\ sock' \in [Sockets -> {"connecting", "open", "closing", "closed"}]
         /\ attached' \subseteq Sockets /\ opening' \subseteq Sockets
         /\ ws' \in Sockets \cup {None} /\ state' = "CONNECTING"
  BY DEF TypeOK, Dial

LEMMA ReconType ==
  ASSUME TypeOK, (CanRecon /\ ScheduleRecon) \/ GiveUp
  PROVE  /\ state' \in {"CLOSED", "RECONNECTING"}
         /\ attempt' \in 0..MaxReconnects /\ timer' \in BOOLEAN
<1>1. attempt \in 0..MaxReconnects /\ timer \in BOOLEAN
  BY DEF TypeOK
<1>2. CASE CanRecon /\ ScheduleRecon
  <2>1. attempt < MaxReconnects /\ attempt' = attempt + 1
    BY <1>2 DEF CanRecon, ScheduleRecon
  <2>2. attempt' \in 0..MaxReconnects
    BY <1>1, <2>1, Limits
  <2>. QED  BY <1>2, <2>2 DEF ScheduleRecon
<1>3. CASE GiveUp
  BY <1>1, <1>3 DEF GiveUp
<1>. QED  BY <1>2, <1>3

LEMMA ElementsType ==
  ASSUME TypeOK
  PROVE  Elements(buffer) \subseteq 1..MaxSends
<1>1. buffer \in Seq(1..MaxSends)
  BY DEF TypeOK
<1>2. \A i \in 1..Len(buffer) : buffer[i] \in 1..MaxSends
  BY <1>1, ElementOfSeq
<1>. QED  BY <1>2 DEF Elements

LEMMA ConnectType == ASSUME TypeOK, NEW c \in Callers, Connect(c) PROVE TypeOK'
<1>0. UNCHANGED <<aborted, heartbeat, iterator, messages>>
  BY DEF Connect
<1>1. CASE ConnectOpen(c) \/ ConnectWait(c)
  <2>1. UNCHANGED <<connection, sockets, dialled>>
        /\ caller' \in [Callers -> {"idle", "dialling", "waiting", "open", "failed"}]
    BY <1>1 DEF ConnectOpen, ConnectWait, TypeOK
  <2>. QED
    BY <1>0, <2>1 DEF TypeOK, connection, sockets, heartbeat, iterator, messages
<1>2. CASE \E s \in Sockets : ConnectDial(c, s)
  <2>1. PICK s \in Sockets : ConnectDial(c, s)
    BY <1>2
  <2>2. /\ caller' \in [Callers -> {"idle", "dialling", "waiting", "open", "failed"}]
        /\ dialled' \in [Callers -> Sockets \cup {None}]
        /\ UNCHANGED <<attempt, timer>> /\ Dial(s)
    BY <2>1 DEF ConnectDial, TypeOK
  <2>. QED
    BY <1>0, <2>2, DialType DEF TypeOK, heartbeat, iterator, messages
<1>. QED  BY <1>1, <1>2 DEF Connect

LEMMA RedialType == ASSUME TypeOK, Redial PROVE TypeOK'
<1>1. PICK s \in Sockets : Dial(s)
  BY DEF Redial
<1>. QED  BY <1>1, DialType DEF Redial, TypeOK, callers, heartbeat, iterator, messages

LEMMA CloseType == ASSUME TypeOK, Close PROVE TypeOK'
<1>1. HangUp /\ Answer(None, TRUE, "failed")
  BY DEF Close
<1>2. buffer' \in Seq(1..MaxSends) /\ Len(buffer') <= MaxBuffer
  BY Limits DEF Close
<1>. QED  BY <1>1, <1>2, HangUpType, AnswerType, ElementsType
          DEF Close, StopPing, TerminateIter, TypeOK

LEMMA OpenType == ASSUME TypeOK, NEW s \in Sockets, OnOpen(s) PROVE TypeOK'
<1>0. /\ sock' \in [Sockets -> {"connecting", "open", "closing", "closed"}]
      /\ opening' \subseteq Sockets
      /\ UNCHANGED <<ws, timer, aborted, attached, dialled, iterDone, iterWaiting>>
  BY DEF OnOpen, TypeOK, iterator
<1>1. CASE s \in opening
  <2>1. state' = "OPEN" /\ attempt' = 0 /\ StartPing /\ Flush /\ Answer(s, TRUE, "open")
    BY <1>1 DEF OnOpen
  <2>2. buffer' \in Seq(1..MaxSends) /\ Len(buffer') <= MaxBuffer /\ wire' \in Seq(1..MaxSends)
    BY <2>1, Limits, ConcatProperties DEF Flush, TypeOK
  <2>. QED  BY <1>0, <2>1, <2>2, AnswerType, Limits DEF StartPing, Flush, TypeOK
<1>2. CASE s \notin opening
  BY <1>0, <1>2, ZenonT(30) DEF OnOpen, TypeOK, heartbeat, messages
<1>. QED  BY <1>1, <1>2

LEMMA EndsType == ASSUME TypeOK, NEW s \in Sockets, SocketEnds(s) PROVE TypeOK'
<1>1. /\ OnClose(s) /\ ((CanRecon /\ ScheduleRecon) \/ GiveUp)
      /\ \E e \in BOOLEAN : Answer(s, e, "failed")
      /\ TerminateIter \/ UNCHANGED iterator
  BY DEF SocketEnds, OnCloseFinal, OnCloseRecon, OnCloseGiveUp
<1>2. caller' \in [Callers -> {"idle", "dialling", "waiting", "open", "failed"}]
  BY <1>1, AnswerType
<1>3. iterDone' \in BOOLEAN /\ iterWaiting' \in BOOLEAN
  BY <1>1 DEF TerminateIter, iterator, TypeOK
<1>. QED  BY <1>1, <1>2, <1>3, ReconType DEF OnClose, StopPing, TypeOK, messages

LEMMA TimeoutType == ASSUME TypeOK, NEW s \in Sockets, ConnectTimeout(s) PROVE TypeOK'
<1>1. /\ HangUp /\ ((CanRecon /\ ScheduleRecon) \/ GiveUp)
      /\ \E e \in BOOLEAN : Answer(s, e, "failed")
  BY DEF ConnectTimeout
<1>2. caller' \in [Callers -> {"idle", "dialling", "waiting", "open", "failed"}]
  BY <1>1, AnswerType
<1>. QED  BY <1>1, <1>2, ReconType, HangUpType
          DEF ConnectTimeout, TypeOK, heartbeat, iterator, messages

LEMMA PongTimeoutType == ASSUME TypeOK, PongTimeout PROVE TypeOK'
<1>1. HangUp /\ ((CanRecon /\ ScheduleRecon) \/ GiveUp)
  BY DEF PongTimeout
<1>. QED  BY <1>1, ReconType, HangUpType DEF PongTimeout, TypeOK, callers, iterator, messages

LEMMA SendType == ASSUME TypeOK, Send PROVE TypeOK'
<1>0. /\ sends' \in 0..MaxSends /\ sends + 1 \in 1..MaxSends
      /\ UNCHANGED <<aborted, caller, dialled, pinger, leaked, pongFor, iterDone, iterWaiting>>
  BY Limits DEF Send, TypeOK, callers, heartbeat, iterator
<1>1. CASE SendBuffered(sends + 1)
  <2>0. UNCHANGED <<state, ws, attempt, timer, sock, attached, opening>>
    BY <1>1 DEF SendBuffered, connection, sockets
  <2>1. CASE aborted
    BY <1>0, <1>1, <2>0, <2>1, ZenonT(30) DEF SendBuffered, TypeOK
  <2>2. CASE Buffered(sends + 1)
    <3>1. CASE Len(buffer) >= MaxBuffer
      <4>1. buffer # <<>> /\ Head(buffer) \in 1..MaxSends
        BY <3>1, Limits DEF TypeOK
      <4>2. /\ Tail(buffer) \in Seq(1..MaxSends) /\ Len(Tail(buffer)) = Len(buffer) - 1
        BY <4>1 DEF TypeOK
      <4>3. buffer' \in Seq(1..MaxSends) /\ Len(buffer') = Len(buffer)
        BY <1>0, <2>2, <3>1, <4>2 DEF Buffered, TypeOK
      <4>. QED  BY <1>0, <2>0, <2>2, <4>1, <4>3, ZenonT(30) DEF Buffered, TypeOK
    <3>2. CASE ~(Len(buffer) >= MaxBuffer)
      <4>1. buffer' \in Seq(1..MaxSends) /\ Len(buffer') = Len(buffer) + 1
        BY <1>0, <2>2, <3>2 DEF Buffered, TypeOK
      <4>2. Len(buffer') <= MaxBuffer
        BY <3>2, <4>1, Limits DEF TypeOK
      <4>. QED  BY <1>0, <2>0, <2>2, <3>2, <4>1, <4>2 DEF Buffered, TypeOK
    <3>. QED  BY <3>1, <3>2
  <2>. QED  BY <1>1, <2>1, <2>2 DEF SendBuffered
<1>2. CASE SendNow(sends + 1)
  BY <1>0, <1>2 DEF SendNow, connection, sockets, TypeOK
<1>3. CASE SendThrows(sends + 1)
  <2>1. state' \in {"CLOSED", "CONNECTING", "OPEN", "RECONNECTING"}
        /\ attempt' \in 0..MaxReconnects /\ timer' \in BOOLEAN
    BY <1>3, ReconType DEF SendThrows, TypeOK
  <2>2. sock' \in [Sockets -> {"connecting", "open", "closing", "closed"}]
    BY <1>3 DEF SendThrows, TypeOK
  <2>. QED  BY <1>0, <1>3, <2>1, <2>2 DEF SendThrows, TypeOK
<1>. QED  BY <1>1, <1>2, <1>3 DEF Send

\* The rest changes neither the sockets nor the state.
Rest ==
  \/ \E s \in Sockets : OnMessage(s)
  \/ Ping \/ Pong \/ DrainBuffer \/ IterNext \/ UNCHANGED wsVars

LEMMA RestType == ASSUME TypeOK, Rest PROVE TypeOK'
<1>. USE DEF TypeOK, connection, sockets, callers, heartbeat, iterator, messages, wsVars
<1>1. CASE \E s \in Sockets : OnMessage(s)
  BY <1>1 DEF OnMessage
<1>2. CASE Ping
  BY <1>2 DEF Ping, Is
<1>3. CASE Pong
  BY <1>3 DEF Pong
<1>4. CASE DrainBuffer
  <2>1. buffer' = <<>> /\ discarded' \subseteq 1..MaxSends
    BY <1>4, ElementsType DEF DrainBuffer
  <2>2. UNCHANGED <<connection, aborted, sockets, callers, heartbeat, iterator, sends, wire, held,
                    sendFailed>>
    BY <1>4 DEF DrainBuffer
  <2>. QED  BY <2>1, <2>2, Limits
<1>5. CASE IterNext
  BY <1>5 DEF IterNext
<1>6. CASE UNCHANGED wsVars
  BY <1>6
<1>. QED  BY <1>1, <1>2, <1>3, <1>4, <1>5, <1>6 DEF Rest

LEMMA TypeStep == TypeOK /\ [Next]_wsVars => TypeOK'
  BY ConnectType, RedialType, CloseType, OpenType, EndsType, TimeoutType, PongTimeoutType,
     SendType, RestType DEF Next, Rest

----------------------------------------------------------------------------
(* The connection.                                                         *)

\* A dial is made while nothing carries the handlers and no pong is awaited.
LEMMA DialJoins ==
  ASSUME TypeOK, TimeoutRuns, Joined, NEW s \in Sockets, Dial(s), state \in {"CLOSED", "RECONNECTING"},
         state = "RECONNECTING" => ~aborted,
         ~timer', UNCHANGED <<aborted, pongFor>>
  PROVE  Joined' /\ TimeoutRuns'
<1>1. attached = {}
  <2>. SUFFICES ASSUME NEW t \in attached PROVE FALSE
    OBVIOUS
  <2>1. t = ws /\ t # None /\ sock[t] \in {"connecting", "open"}
    BY Limits DEF Joined, TypeOK
  <2>. QED  BY <2>1 DEF Joined, Is
<1>2. /\ sock' = [sock EXCEPT ![s] = "connecting"] /\ attached' = attached \cup {s}
      /\ opening' = opening \cup {s} /\ ws' = s /\ state' = "CONNECTING"
  BY DEF Dial
<1>3. s # None /\ attached' = {s} /\ sock'[s] = "connecting" /\ s \in opening'
  BY <1>1, <1>2, Limits DEF TypeOK
<1>4. ~aborted => opening' \subseteq attached'
  BY <1>1, <1>2 DEF Joined
<1>5. aborted \/ pongFor = None
  BY DEF Joined
<1>. QED  BY <1>2, <1>3, <1>4, <1>5 DEF Joined, TimeoutRuns, Is

\* The client is without a socket: it says so, or that it will dial again.
LEMMA HungUp ==
  ASSUME TypeOK, Joined, ws' = None, attached' = {},
         ~aborted' => opening' = {}, aborted' => ~timer',
         state' \in {"CLOSED", "RECONNECTING"}, state' = "RECONNECTING" <=> timer',
         aborted' \/ pongFor' = None
  PROVE  Joined' /\ TimeoutRuns'
  BY DEF Joined, TimeoutRuns, Is

LEMMA ConnectJoins ==
  ASSUME TypeOK, TimeoutRuns, Joined, NEW c \in Callers, Connect(c)
  PROVE  Joined' /\ TimeoutRuns'
<1>1. CASE ConnectOpen(c) \/ ConnectWait(c)
  BY <1>1 DEF Connect, ConnectOpen, ConnectWait, connection, sockets, heartbeat, Joined,
              TimeoutRuns, Is
<1>2. CASE \E s \in Sockets : ConnectDial(c, s)
  <2>1. PICK s \in Sockets : ConnectDial(c, s)
    BY <1>2
  <2>2. Dial(s) /\ state = "CLOSED" /\ ~timer' /\ UNCHANGED <<aborted, pongFor>>
    BY <2>1 DEF ConnectDial, Connect, heartbeat, Joined, TypeOK
  <2>. QED  BY <2>2, DialJoins
<1>. QED  BY <1>1, <1>2 DEF Connect

LEMMA RedialJoins ==
  ASSUME TypeOK, TimeoutRuns, Joined, Redial
  PROVE  Joined' /\ TimeoutRuns'
<1>1. PICK s \in Sockets : Dial(s)
  BY DEF Redial
<1>2. state = "RECONNECTING" /\ ~aborted /\ ~timer' /\ UNCHANGED <<aborted, pongFor>>
  BY DEF Redial, heartbeat, Joined
<1>. QED  BY <1>1, <1>2, DialJoins

LEMMA CloseJoins ==
  ASSUME TypeOK, Joined, Close
  PROVE  Joined' /\ TimeoutRuns'
<1>1. ws' = None /\ attached' = {}
  BY DEF Close, HangUp, Joined
<1>. QED  BY <1>1, HungUp DEF Close, StopPing

LEMMA OpenJoins ==
  ASSUME TypeOK, TimeoutRuns, Joined, NEW s \in Sockets, OnOpen(s)
  PROVE  Joined' /\ TimeoutRuns'
<1>1. /\ s = ws /\ s \in opening /\ attached = {s} /\ s # None
      /\ state = "CONNECTING" /\ ~timer
  BY Limits DEF OnOpen, Joined, TypeOK, Is
<1>2. /\ state' = "OPEN" /\ sock'[s] = "open" /\ opening' = opening \ {s}
      /\ UNCHANGED <<ws, timer, aborted, attached, pongFor>>
  BY <1>1 DEF OnOpen, StartPing, TypeOK
<1>3. aborted \/ pongFor = None
  BY <1>1 DEF Joined
<1>. QED  BY <1>1, <1>2, <1>3 DEF Joined, TimeoutRuns, Is

\* The socket has closed and is still what _ws holds.
LEMMA EndsJoins ==
  ASSUME TypeOK, TimeoutRuns, Joined, NEW s \in Sockets, SocketEnds(s)
  PROVE  Joined' /\ TimeoutRuns'
<1>0. OnClose(s)
  BY DEF SocketEnds, OnCloseFinal, OnCloseRecon, OnCloseGiveUp
<1>1. /\ s = ws /\ s # None /\ attached = {s} /\ state \in {"OPEN", "CONNECTING"} /\ ~timer
  <2>1. s \in attached
    BY <1>0 DEF OnClose
  <2>2. s = ws /\ s # None /\ sock[s] \in {"connecting", "open"}
    BY <2>1, Limits DEF Joined
  <2>. QED  BY <2>1, <2>2 DEF Joined, Is
<1>2. /\ sock'[s] = "closed" /\ attached' = {} /\ opening' = opening \ {s} /\ pongFor' = None
      /\ UNCHANGED <<ws, aborted>>
  BY <1>0, <1>1 DEF OnClose, StopPing, TypeOK
<1>3. \/ state' = "RECONNECTING" /\ timer' /\ ~aborted
      \/ state' = "CLOSED" /\ ~timer'
  BY <1>1 DEF SocketEnds, OnCloseFinal, OnCloseRecon, OnCloseGiveUp, ScheduleRecon, GiveUp
<1>. QED  BY <1>1, <1>2, <1>3 DEF Joined, TimeoutRuns, Is

LEMMA TimeoutJoins ==
  ASSUME TypeOK, TimeoutRuns, Joined, NEW s \in Sockets, ConnectTimeout(s)
  PROVE  Joined' /\ TimeoutRuns'
<1>1. /\ ws' = None /\ attached' = {} /\ opening' = opening \ {s}
      /\ UNCHANGED <<aborted, pongFor>>
  BY DEF ConnectTimeout, HangUp, heartbeat, Joined
<1>2. ~aborted => /\ s = ws /\ opening = {s} /\ state = "CONNECTING" /\ ~timer /\ pongFor = None
  BY Limits DEF ConnectTimeout, Joined, TypeOK, Is
<1>3. \/ state' = "RECONNECTING" /\ timer' /\ ~aborted
      \/ state' = "CLOSED" /\ ~timer'
  BY <1>2 DEF ConnectTimeout, ScheduleRecon, GiveUp, Joined
<1>4. ~aborted' => opening' = {}
  BY <1>1, <1>2
<1>. QED  BY <1>1, <1>2, <1>3, <1>4, HungUp

LEMMA PongTimeoutJoins ==
  ASSUME TypeOK, Joined, PongTimeout
  PROVE  Joined' /\ TimeoutRuns'
<1>1. ws' = None /\ attached' = {} /\ pongFor' = None /\ UNCHANGED <<aborted, opening>>
  BY DEF PongTimeout, HangUp, Joined
<1>2. ~aborted => opening = {} /\ state = "OPEN" /\ ~timer
  BY DEF PongTimeout, Joined, Is
<1>3. \/ state' = "RECONNECTING" /\ timer' /\ ~aborted
      \/ state' = "CLOSED" /\ ~timer'
  BY <1>2 DEF PongTimeout, ScheduleRecon, GiveUp, Joined
<1>. QED  BY <1>1, <1>2, <1>3, HungUp

LEMMA SendJoins ==
  ASSUME TypeOK, TimeoutRuns, Joined, Send
  PROVE  TimeoutRuns' /\ (sendFailed' \/ Joined')
<1>1. CASE SendBuffered(sends + 1) \/ SendNow(sends + 1)
  <2>1. UNCHANGED <<state, ws, timer, sock, attached, opening, aborted, pongFor>>
    BY <1>1 DEF Send, SendBuffered, SendNow, connection, sockets, heartbeat
  <2>. QED  BY <2>1 DEF Joined, TimeoutRuns, Is
<1>2. CASE SendThrows(sends + 1)
  BY <1>2 DEF SendThrows, TimeoutRuns, Is
<1>. QED  BY <1>1, <1>2 DEF Send

LEMMA RestJoins ==
  ASSUME TypeOK, Joined, Rest
  PROVE  Joined'
<1>1. /\ UNCHANGED <<state, ws, timer, aborted, sock, attached, opening>>
      /\ pongFor' \in {pongFor, None} \/ (pongFor' = ws /\ Is(ws, "open"))
  BY DEF Rest, OnMessage, Ping, Pong, DrainBuffer, IterNext, connection, sockets, callers,
         heartbeat, iterator, messages, wsVars
<1>. QED  BY <1>1 DEF Joined, Is

\* After a send has thrown, only the timeout of a connecting socket is told of.
LEMMA TimeoutRunsStep ==
  ASSUME TypeOK, TimeoutRuns, Next
  PROVE  TimeoutRuns'
<1>. USE Limits DEF TimeoutRuns, Is, TypeOK
<1>1. ASSUME NEW c \in Callers, Connect(c) PROVE TimeoutRuns'
  BY <1>1 DEF Connect, ConnectOpen, ConnectWait, ConnectDial, Dial, connection, sockets
<1>2. ASSUME NEW s \in Sockets, OnOpen(s) PROVE TimeoutRuns'
  BY <1>2 DEF OnOpen
<1>3. ASSUME NEW s \in Sockets, SocketEnds(s) PROVE TimeoutRuns'
  <2>1. OnClose(s)
    BY <1>3 DEF SocketEnds, OnCloseFinal, OnCloseRecon, OnCloseGiveUp
  <2>. QED  BY <2>1 DEF OnClose
<1>4. ASSUME NEW s \in Sockets, ConnectTimeout(s) PROVE TimeoutRuns'
  BY <1>4 DEF ConnectTimeout, HangUp
<1>5. CASE Close \/ PongTimeout
  BY <1>5 DEF Close, PongTimeout, HangUp
<1>6. CASE Redial
  BY <1>6 DEF Redial, Dial
<1>7. CASE Send
  BY <1>7 DEF Send, SendBuffered, SendNow, SendThrows, connection, sockets
<1>8. CASE Rest
  BY <1>8 DEF Rest, OnMessage, Ping, Pong, DrainBuffer, IterNext, connection, sockets, wsVars
<1>. QED  BY <1>1, <1>2, <1>3, <1>4, <1>5, <1>6, <1>7, <1>8 DEF Next, Rest

LEMMA ConnStep ==
  ASSUME ConnInv, [Next]_wsVars
  PROVE  ConnInv'
<1>1. TypeOK'
  BY TypeStep DEF ConnInv
<1>2. TimeoutRuns'
  <2>1. CASE UNCHANGED wsVars
    BY <2>1 DEF ConnInv, wsVars, connection, sockets, TimeoutRuns, Is
  <2>. QED  BY <2>1, TimeoutRunsStep DEF ConnInv
<1>3. sendFailed => sendFailed'
  BY DEF Next, Connect, OnOpen, StartPing, Flush, SocketEnds, OnCloseFinal, OnCloseRecon,
         OnCloseGiveUp, OnClose, OnMessage, ConnectTimeout, Close, Redial, Ping, Pong, PongTimeout,
         Send, SendBuffered, Buffered, SendNow, SendThrows, DrainBuffer, IterNext, wsVars, messages
<1>4. Joined => sendFailed' \/ Joined'
  BY ConnectJoins, RedialJoins, CloseJoins, OpenJoins, EndsJoins, TimeoutJoins, PongTimeoutJoins,
     SendJoins, RestJoins DEF ConnInv, Next, Rest
<1>. QED  BY <1>1, <1>2, <1>3, <1>4 DEF ConnInv

----------------------------------------------------------------------------
(* The messages.                                                           *)

\* Messages are numbered by the calls so far.
Numbered ==
  /\ \A i \in 1..Len(buffer) : buffer[i] <= sends
  /\ \A i \in 1..Len(wire) : wire[i] <= sends

\* What is on the wire, what is in the buffer, and how the one stands to the other.
WireInOrder ==
  \A i, j \in 1..Len(wire) :
     i < j => wire[i] # wire[j] /\ (wire[i] > wire[j] => wire[j] \in held)
BufferInOrder == \A i, j \in 1..Len(buffer) : i < j => buffer[i] < buffer[j]
BufferBehind  ==
  \A i \in 1..Len(wire), j \in 1..Len(buffer) :
     wire[i] # buffer[j] /\ (wire[i] > buffer[j] => buffer[j] \in held)

\* What is in the buffer while a socket is open has been buffered beside it.
HeldBack == Is(ws, "open") => \A j \in 1..Len(buffer) : buffer[j] \in held

NoneLost == sendFailed \/ 1..sends \subseteq Elements(buffer) \cup Elements(wire) \cup discarded

InOrder == Numbered /\ WireInOrder /\ BufferInOrder /\ BufferBehind /\ HeldBack
MsgInv  == InOrder /\ NoneLost

LEMMA InitMsg == Init => MsgInv
  BY DEF Init, MsgInv, InOrder, Numbered, WireInOrder, BufferInOrder, BufferBehind, HeldBack,
         NoneLost, Is

LEMMA Sequences ==
  ASSUME TypeOK
  PROVE  /\ buffer \in Seq(Nat) /\ wire \in Seq(Nat) /\ sends \in Nat
         /\ Len(buffer) \in Nat /\ Len(wire) \in Nat
         /\ \A i \in 1..Len(buffer) : buffer[i] \in Nat
         /\ \A i \in 1..Len(wire) : wire[i] \in Nat
<1>1. buffer \in Seq(1..MaxSends) /\ wire \in Seq(1..MaxSends) /\ sends \in Nat
  BY Limits DEF TypeOK
<1>2. 1..MaxSends \subseteq Nat
  BY Limits
<1>3. ASSUME NEW q \in Seq(1..MaxSends)
      PROVE  q \in Seq(Nat) /\ Len(q) \in Nat /\ \A i \in 1..Len(q) : q[i] \in Nat
  <2>1. Len(q) \in Nat /\ q \in [1..Len(q) -> 1..MaxSends]
    BY LenProperties
  <2>2. q \in [1..Len(q) -> Nat]
    BY <1>2, <2>1
  <2>3. q \in Seq(Nat)
    BY <2>1, <2>2, SeqDef
  <2>. QED  BY <2>1, <2>2, <2>3
<1>. QED  BY <1>1, <1>3

LEMMA AppendElements ==
  ASSUME NEW q \in Seq(Nat), NEW m \in Nat
  PROVE  Elements(Append(q, m)) = Elements(q) \cup {m}
<1>1. /\ Len(Append(q, m)) = Len(q) + 1 /\ Len(q) \in Nat
      /\ \A i \in 1..Len(q) : Append(q, m)[i] = q[i]
      /\ Append(q, m)[Len(q) + 1] = m
  OBVIOUS
<1>2. 1..Len(Append(q, m)) = 1..Len(q) \cup {Len(q) + 1}
  BY <1>1
<1>. QED  BY <1>1, <1>2 DEF Elements

LEMMA TailElements ==
  ASSUME NEW q \in Seq(Nat), q # <<>>
  PROVE  Elements(q) = {Head(q)} \cup Elements(Tail(q))
<1>1. /\ Len(Tail(q)) = Len(q) - 1 /\ Len(q) \in Nat /\ Len(q) > 0 /\ Head(q) = q[1]
      /\ \A i \in 1..Len(q) - 1 : Tail(q)[i] = q[i + 1]
  OBVIOUS
<1>2. ASSUME NEW i \in 1..Len(q) PROVE q[i] \in {Head(q)} \cup Elements(Tail(q))
  <2>1. CASE i = 1
    BY <1>1, <2>1
  <2>2. CASE i # 1
    <3>1. i - 1 \in 1..Len(Tail(q)) /\ Tail(q)[i - 1] = q[i]
      BY <1>1, <2>2
    <3>. QED  BY <3>1 DEF Elements
  <2>. QED  BY <2>1, <2>2
<1>3. ASSUME NEW i \in 1..Len(Tail(q)) PROVE Tail(q)[i] \in Elements(q)
  <2>1. i + 1 \in 1..Len(q) /\ Tail(q)[i] = q[i + 1]
    BY <1>1
  <2>. QED  BY <2>1 DEF Elements
<1>4. Head(q) \in Elements(q)
  BY <1>1 DEF Elements
<1>. QED  BY <1>2, <1>3, <1>4 DEF Elements

LEMMA ConcatElements ==
  ASSUME NEW q \in Seq(Nat), NEW r \in Seq(Nat)
  PROVE  Elements(q \o r) = Elements(q) \cup Elements(r)
<1>1. /\ Len(q \o r) = Len(q) + Len(r) /\ Len(q) \in Nat /\ Len(r) \in Nat
      /\ \A i \in 1..Len(q) + Len(r) :
            (q \o r)[i] = IF i <= Len(q) THEN q[i] ELSE r[i - Len(q)]
  OBVIOUS
<1>2. ASSUME NEW i \in 1..Len(q \o r) PROVE (q \o r)[i] \in Elements(q) \cup Elements(r)
  <2>1. CASE i <= Len(q)
    BY <1>1, <2>1 DEF Elements
  <2>2. CASE ~(i <= Len(q))
    <3>1. i - Len(q) \in 1..Len(r) /\ (q \o r)[i] = r[i - Len(q)]
      BY <1>1, <2>2
    <3>. QED  BY <3>1 DEF Elements
  <2>. QED  BY <2>1, <2>2
<1>3. ASSUME NEW i \in 1..Len(q) PROVE q[i] \in Elements(q \o r)
  <2>1. i \in 1..Len(q \o r) /\ (q \o r)[i] = q[i]
    BY <1>1
  <2>. QED  BY <2>1 DEF Elements
<1>4. ASSUME NEW i \in 1..Len(r) PROVE r[i] \in Elements(q \o r)
  <2>1. i + Len(q) \in 1..Len(q \o r) /\ (q \o r)[i + Len(q)] = r[i]
    BY <1>1
  <2>. QED  BY <2>1 DEF Elements
<1>. QED  BY <1>2, <1>3, <1>4 DEF Elements

\* A step that leaves the messages alone and opens no socket.
LEMMA SameMessages ==
  ASSUME MsgInv, UNCHANGED messages, Is(ws, "open")' => Is(ws, "open")
  PROVE  MsgInv'
  BY DEF MsgInv, InOrder, Numbered, WireInOrder, BufferInOrder, BufferBehind, HeldBack, NoneLost,
         messages, Elements

\* close() and drainBuffer() discard what is buffered.
LEMMA DiscardsMsg ==
  ASSUME TypeOK, MsgInv, buffer' = <<>>, discarded' = discarded \cup Elements(buffer),
         UNCHANGED <<sends, wire, held, sendFailed>>
  PROVE  MsgInv'
<1>1. InOrder'
  BY DEF MsgInv, InOrder, Numbered, WireInOrder, BufferInOrder, BufferBehind, HeldBack
<1>2. NoneLost'
  BY DEF MsgInv, NoneLost, Elements
<1>. QED  BY <1>1, <1>2 DEF MsgInv

\* What is flushed follows what is on the wire, in its order; what was overtaken was held.
LEMMA FlushMsg ==
  ASSUME TypeOK, MsgInv, wire' = wire \o buffer, buffer' = <<>>,
         UNCHANGED <<sends, held, discarded, sendFailed>>
  PROVE  MsgInv'
<1>1. /\ Len(wire') = Len(wire) + Len(buffer) /\ Len(buffer') = 0
      /\ Len(wire) \in Nat /\ Len(buffer) \in Nat
      /\ \A i \in 1..Len(wire') :
            wire'[i] = IF i <= Len(wire) THEN wire[i] ELSE buffer[i - Len(wire)]
  BY Sequences
<1>2. Numbered'
  BY <1>1 DEF MsgInv, InOrder, Numbered
<1>3. WireInOrder'
  <2>. SUFFICES ASSUME NEW i \in 1..Len(wire'), NEW j \in 1..Len(wire'), i < j
                PROVE  wire'[i] # wire'[j] /\ (wire'[i] > wire'[j] => wire'[j] \in held')
    BY DEF WireInOrder
  <2>1. CASE j <= Len(wire)
    BY <1>1, <2>1 DEF MsgInv, InOrder, WireInOrder
  <2>2. CASE i <= Len(wire) /\ ~(j <= Len(wire))
    <3>1. i \in 1..Len(wire) /\ j - Len(wire) \in 1..Len(buffer)
      BY <1>1, <2>2
    <3>. QED  BY <1>1, <2>2, <3>1 DEF MsgInv, InOrder, BufferBehind
  <2>3. CASE ~(i <= Len(wire))
    <3>1. /\ i - Len(wire) \in 1..Len(buffer) /\ j - Len(wire) \in 1..Len(buffer)
          /\ i - Len(wire) < j - Len(wire)
          /\ wire'[i] = buffer[i - Len(wire)] /\ wire'[j] = buffer[j - Len(wire)]
      BY <1>1, <2>3
    <3>2. wire'[i] < wire'[j] /\ wire'[i] \in Nat /\ wire'[j] \in Nat
      BY <3>1, Sequences DEF MsgInv, InOrder, BufferInOrder
    <3>. QED  BY <3>2
  <2>. QED  BY <2>1, <2>2, <2>3
<1>4. BufferInOrder' /\ BufferBehind' /\ HeldBack'
  BY <1>1 DEF BufferInOrder, BufferBehind, HeldBack
<1>5. NoneLost'
  <2>1. Elements(wire') = Elements(wire) \cup Elements(buffer)
    BY Sequences, ConcatElements
  <2>. QED  BY <2>1 DEF MsgInv, NoneLost
<1>. QED  BY <1>2, <1>3, <1>4, <1>5 DEF MsgInv, InOrder

\* A flush to a socket that has gone by then loses what is buffered.
LEMMA FlushLosesMsg ==
  ASSUME TypeOK, MsgInv, sendFailed, buffer' = <<>>,
         UNCHANGED <<sends, wire, held, discarded, sendFailed>>
  PROVE  MsgInv'
  BY DEF MsgInv, InOrder, Numbered, WireInOrder, BufferInOrder, BufferBehind, HeldBack, NoneLost

LEMMA OpenMsg ==
  ASSUME ConnInv, MsgInv, NEW s \in Sockets, OnOpen(s)
  PROVE  MsgInv'
<1>1. CASE s \in opening
  <2>1. Flush
    BY <1>1 DEF OnOpen
  <2>2. CASE ws # None /\ sock'[ws] = "open"
    BY <2>1, <2>2, FlushMsg DEF Flush, ConnInv
  <2>3. CASE ~(ws # None /\ sock'[ws] = "open")
    <3>1. sendFailed
      <4>. SUFFICES ASSUME Joined PROVE FALSE
        BY DEF ConnInv
      <4>1. s = ws /\ s # None /\ sock'[s] = "open"
        BY Limits DEF Joined, OnOpen, ConnInv, TypeOK
      <4>. QED  BY <2>3, <4>1
    <3>. QED  BY <2>1, <2>3, <3>1, FlushLosesMsg DEF Flush, ConnInv
  <2>. QED  BY <2>2, <2>3
<1>2. CASE s \notin opening
  <2>1. UNCHANGED messages /\ UNCHANGED ws
    BY <1>2 DEF OnOpen
  <2>2. s # ws
    BY <1>2, Limits DEF OnOpen, ConnInv, TimeoutRuns, Is
  <2>3. Is(ws, "open")' => Is(ws, "open")
    BY <2>1, <2>2 DEF OnOpen, Is, ConnInv, TypeOK
  <2>. QED  BY <2>1, <2>3, SameMessages
<1>. QED  BY <1>1, <1>2

LEMMA BufferedMsg ==
  ASSUME TypeOK, MsgInv, sends' = sends + 1, Buffered(sends + 1), UNCHANGED <<ws, sock>>
  PROVE  MsgInv'
<1>. DEFINE m == sends + 1
            q == IF Len(buffer) >= MaxBuffer THEN Tail(buffer) ELSE buffer
            d == IF Len(buffer) >= MaxBuffer THEN 1 ELSE 0
<1>0. Len(buffer) >= MaxBuffer => buffer # <<>>
  BY Limits
<1>1. /\ q \in Seq(Nat) /\ Len(q) = Len(buffer) - d /\ Len(q) \in Nat
      /\ \A i \in 1..Len(q) : i + d \in 1..Len(buffer) /\ q[i] = buffer[i + d]
  BY <1>0, Sequences
<1>2. buffer' = Append(q, m) /\ UNCHANGED <<wire, sendFailed>>
      /\ held \subseteq held' /\ (Is(ws, "open") => m \in held')
      /\ discarded' = IF Len(buffer) >= MaxBuffer THEN discarded \cup {Head(buffer)} ELSE discarded
  BY DEF Buffered
<1>. HIDE DEF q
<1>3. /\ Len(buffer') = Len(q) + 1 /\ buffer'[Len(q) + 1] = m
      /\ \A i \in 1..Len(q) : buffer'[i] = buffer[i + d] /\ i + d \in 1..Len(buffer)
  BY <1>1, <1>2, Sequences
<1>4. m \in Nat /\ m > sends /\ d \in Nat /\ sends \in Nat
  BY Sequences
<1>. HIDE DEF m, d
<1>5. Numbered'
  <2>1. \A i \in 1..Len(buffer') : buffer'[i] <= sends'
    <3>. SUFFICES ASSUME NEW i \in 1..Len(buffer') PROVE buffer'[i] <= sends'
      OBVIOUS
    <3>1. CASE i \in 1..Len(q)
      BY <1>3, <3>1, Sequences DEF MsgInv, InOrder, Numbered
    <3>2. CASE i = Len(q) + 1
      BY <1>3, <1>4, <3>2 DEF m
    <3>. QED  BY <1>1, <1>3, <3>1, <3>2
  <2>2. \A i \in 1..Len(wire') : wire'[i] <= sends'
    BY <1>2, Sequences DEF MsgInv, InOrder, Numbered
  <2>. QED  BY <2>1, <2>2 DEF Numbered
<1>6. WireInOrder'
  BY <1>2 DEF MsgInv, InOrder, WireInOrder
<1>7. BufferInOrder'
  <2>. SUFFICES ASSUME NEW i \in 1..Len(buffer'), NEW j \in 1..Len(buffer'), i < j
                PROVE  buffer'[i] < buffer'[j]
    BY DEF BufferInOrder
  <2>1. i \in 1..Len(q)
    BY <1>1, <1>3
  <2>2. CASE j \in 1..Len(q)
    BY <1>3, <1>4, <2>1, <2>2 DEF MsgInv, InOrder, BufferInOrder
  <2>3. CASE j = Len(q) + 1
    <3>1. /\ i + d \in 1..Len(buffer) /\ buffer'[i] = buffer[i + d] /\ buffer[i + d] \in Nat
          /\ buffer'[j] = m
      BY <1>3, <2>1, <2>3, Sequences
    <3>2. buffer[i + d] <= sends
      BY <3>1 DEF MsgInv, InOrder, Numbered
    <3>. QED  BY <1>4, <3>1, <3>2
  <2>. QED  BY <1>1, <1>3, <2>2, <2>3
<1>8. BufferBehind'
  <2>. SUFFICES ASSUME NEW i \in 1..Len(wire'), NEW j \in 1..Len(buffer')
                PROVE  /\ wire'[i] # buffer'[j]
                       /\ wire'[i] > buffer'[j] => buffer'[j] \in held'
    BY DEF BufferBehind
  <2>1. CASE j \in 1..Len(q)
    BY <1>2, <1>3, <2>1 DEF MsgInv, InOrder, BufferBehind
  <2>2. CASE j = Len(q) + 1
    BY <1>2, <1>3, <1>4, <2>2, Sequences, SMTT(20) DEF MsgInv, InOrder, Numbered
  <2>. QED  BY <1>1, <1>3, <2>1, <2>2
<1>9. HeldBack'
  <2>. SUFFICES ASSUME Is(ws, "open"), NEW j \in 1..Len(buffer')
                PROVE  buffer'[j] \in held'
    BY DEF HeldBack, Is
  <2>1. CASE j \in 1..Len(q)
    BY <1>2, <1>3, <2>1 DEF MsgInv, InOrder, HeldBack
  <2>2. CASE j = Len(q) + 1
    BY <1>2, <1>3, <2>2
  <2>. QED  BY <1>1, <1>3, <2>1, <2>2
<1>10. NoneLost'
  <2>1. Elements(buffer') = Elements(q) \cup {m}
    BY <1>1, <1>2, <1>4, AppendElements
  <2>2. Elements(buffer) \cup discarded \subseteq Elements(q) \cup discarded'
    BY <1>0, <1>2, TailElements, Sequences DEF q
  <2>3. 1..sends' = 1..sends \cup {m}
    BY <1>4 DEF m
  <2>. QED  BY <1>2, <2>1, <2>2, <2>3 DEF MsgInv, NoneLost
<1>. QED  BY <1>5, <1>6, <1>7, <1>8, <1>9, <1>10 DEF MsgInv, InOrder

LEMMA SendNowMsg ==
  ASSUME TypeOK, MsgInv, sends' = sends + 1, wire' = Append(wire, sends + 1), Is(ws, "open"),
         UNCHANGED <<ws, sock, buffer, held, discarded, sendFailed>>
  PROVE  MsgInv'
<1>1. /\ Len(wire') = Len(wire) + 1 /\ wire'[Len(wire) + 1] = sends + 1 /\ Len(wire) \in Nat
      /\ \A i \in 1..Len(wire) : wire'[i] = wire[i]
      /\ sends \in Nat
  BY Sequences
<1>2. Numbered'
  <2>1. \A i \in 1..Len(wire') : wire'[i] <= sends'
    <3>. SUFFICES ASSUME NEW i \in 1..Len(wire') PROVE wire'[i] <= sends'
      OBVIOUS
    <3>1. CASE i \in 1..Len(wire)
      BY <1>1, <3>1, Sequences DEF MsgInv, InOrder, Numbered
    <3>2. CASE i = Len(wire) + 1
      BY <1>1, <3>2
    <3>. QED  BY <1>1, <3>1, <3>2
  <2>2. \A i \in 1..Len(buffer') : buffer'[i] <= sends'
    BY Sequences DEF MsgInv, InOrder, Numbered
  <2>. QED  BY <2>1, <2>2 DEF Numbered
<1>3. WireInOrder'
  <2>. SUFFICES ASSUME NEW i \in 1..Len(wire'), NEW j \in 1..Len(wire'), i < j
                PROVE  wire'[i] # wire'[j] /\ (wire'[i] > wire'[j] => wire'[j] \in held')
    BY DEF WireInOrder
  <2>1. i \in 1..Len(wire)
    BY <1>1
  <2>2. CASE j \in 1..Len(wire)
    BY <1>1, <2>1, <2>2 DEF MsgInv, InOrder, WireInOrder
  <2>3. CASE j = Len(wire) + 1
    <3>1. wire'[i] = wire[i] /\ wire[i] \in Nat /\ wire'[j] = sends + 1
      BY <1>1, <2>1, <2>3, Sequences
    <3>2. wire[i] <= sends
      BY <2>1 DEF MsgInv, InOrder, Numbered
    <3>. QED  BY <1>1, <3>1, <3>2
  <2>. QED  BY <1>1, <2>2, <2>3
<1>4. BufferInOrder' /\ HeldBack'
  BY DEF MsgInv, InOrder, BufferInOrder, HeldBack, Is
<1>5. BufferBehind'
  <2>. SUFFICES ASSUME NEW i \in 1..Len(wire'), NEW j \in 1..Len(buffer)
                PROVE  /\ wire'[i] # buffer[j]
                       /\ wire'[i] > buffer[j] => buffer[j] \in held
    BY DEF BufferBehind
  <2>1. CASE i \in 1..Len(wire)
    BY <1>1, <2>1 DEF MsgInv, InOrder, BufferBehind
  <2>2. CASE i = Len(wire) + 1
    BY <1>1, <2>2, Sequences DEF MsgInv, InOrder, Numbered, HeldBack
  <2>. QED  BY <1>1, <2>1, <2>2
<1>6. NoneLost'
  <2>1. Elements(wire') = Elements(wire) \cup {sends + 1}
    BY <1>1, Sequences, AppendElements
  <2>2. 1..sends' = 1..sends \cup {sends + 1}
    BY <1>1
  <2>. QED  BY <2>1, <2>2 DEF MsgInv, NoneLost
<1>. QED  BY <1>2, <1>3, <1>4, <1>5, <1>6 DEF MsgInv, InOrder

LEMMA SendMsg ==
  ASSUME TypeOK, MsgInv, Send
  PROVE  MsgInv'
<1>1. CASE SendBuffered(sends + 1) /\ ~aborted
  BY <1>1, BufferedMsg DEF Send, SendBuffered, connection, sockets
<1>2. CASE SendBuffered(sends + 1) /\ aborted
  <2>1. /\ sends' = sends + 1 /\ discarded' = discarded \cup {sends + 1}
        /\ UNCHANGED <<buffer, wire, held, sendFailed, ws, sock>>
    BY <1>2 DEF Send, SendBuffered, connection, sockets
  <2>2. Numbered'
    BY <2>1, Sequences, SMTT(20) DEF MsgInv, InOrder, Numbered
  <2>3. WireInOrder' /\ BufferInOrder' /\ BufferBehind' /\ HeldBack'
    BY <2>1 DEF MsgInv, InOrder, WireInOrder, BufferInOrder, BufferBehind, HeldBack, Is
  <2>4. NoneLost'
    <3>1. 1..sends' = 1..sends \cup {sends + 1}
      BY <2>1, Sequences
    <3>. QED  BY <2>1, <3>1 DEF MsgInv, NoneLost, Elements
  <2>. QED  BY <2>2, <2>3, <2>4 DEF MsgInv, InOrder
<1>3. CASE SendNow(sends + 1)
  BY <1>3, SendNowMsg DEF Send, SendNow, connection, sockets
<1>4. CASE SendThrows(sends + 1)
  <2>1. /\ sends' = sends + 1 /\ ws' = None /\ sendFailed'
        /\ UNCHANGED <<buffer, wire, held>>
    BY <1>4 DEF Send, SendThrows
  <2>2. Numbered'
    BY <2>1, Sequences, SMTT(20) DEF MsgInv, InOrder, Numbered
  <2>3. WireInOrder' /\ BufferInOrder' /\ BufferBehind' /\ HeldBack'
    BY <2>1 DEF MsgInv, InOrder, WireInOrder, BufferInOrder, BufferBehind, HeldBack, Is
  <2>. QED  BY <2>1, <2>2, <2>3 DEF MsgInv, InOrder, NoneLost
<1>. QED  BY <1>1, <1>2, <1>3, <1>4 DEF Send

LEMMA MsgStep ==
  ASSUME ConnInv, MsgInv, [Next]_wsVars
  PROVE  MsgInv'
<1>. USE Limits DEF ConnInv, TypeOK, Is
<1>1. ASSUME NEW c \in Callers, Connect(c) PROVE MsgInv'
  <2>1. UNCHANGED messages /\ (Is(ws, "open")' => Is(ws, "open"))
    BY <1>1 DEF Connect, ConnectOpen, ConnectWait, ConnectDial, Dial, connection, sockets
  <2>. QED  BY <2>1, SameMessages
<1>2. ASSUME NEW s \in Sockets, OnOpen(s) PROVE MsgInv'
  BY <1>2, OpenMsg
<1>3. ASSUME NEW s \in Sockets, SocketEnds(s) PROVE MsgInv'
  <2>1. OnClose(s)
    BY <1>3 DEF SocketEnds, OnCloseFinal, OnCloseRecon, OnCloseGiveUp
  <2>2. UNCHANGED messages /\ (Is(ws, "open")' => Is(ws, "open"))
    BY <2>1 DEF OnClose
  <2>. QED  BY <2>2, SameMessages
<1>4. CASE PongTimeout \/ \E s \in Sockets : ConnectTimeout(s)
  <2>1. UNCHANGED messages /\ ~Is(ws, "open")'
    BY <1>4 DEF PongTimeout, ConnectTimeout, HangUp
  <2>. QED  BY <2>1, SameMessages
<1>5. CASE Close \/ DrainBuffer
  BY <1>5, DiscardsMsg DEF Close, HangUp, DrainBuffer, connection, sockets
<1>6. CASE Redial
  <2>1. UNCHANGED messages /\ (Is(ws, "open")' => Is(ws, "open"))
    BY <1>6 DEF Redial, Dial
  <2>. QED  BY <2>1, SameMessages
<1>7. CASE Send
  BY <1>7, SendMsg
<1>8. CASE Ping \/ Pong \/ IterNext \/ UNCHANGED wsVars \/ \E s \in Sockets : OnMessage(s)
  <2>1. UNCHANGED messages /\ UNCHANGED <<ws, sock>>
    BY <1>8 DEF Ping, Pong, IterNext, OnMessage, wsVars, connection, sockets
  <2>. QED  BY <2>1, SameMessages
<1>. QED  BY <1>1, <1>2, <1>3, <1>4, <1>5, <1>6, <1>7, <1>8 DEF Next

----------------------------------------------------------------------------
(* The theorems.                                                           *)

Inv == ConnInv /\ MsgInv

\* The invariant is inductive, whatever the sockets, the timers and the callers
\* of the client do (ws.ts 933-1420).
THEOREM Inductive == Spec => []Inv
<1>1. Init => Inv
  BY InitConn, InitMsg DEF Inv
<1>2. Inv /\ [Next]_wsVars => Inv'
  BY ConnStep, MsgStep DEF Inv
<1>. QED  BY <1>1, <1>2, PTL DEF Spec

\* The variables keep their types: the attempts stay within maxReconnects and the
\* buffer within maxBufferSize, for any number of messages (ws.ts 1152-1182, 1273-1330).
THEOREM TypeCorrect == Spec => []TypeOK
<1>1. Inv => TypeOK
  BY DEF Inv, ConnInv
<1>. QED  BY <1>1, Inductive, PTL

\* There is one connection and the public state is true of it, until a send has
\* thrown (ws.ts 933-1267).
THEOREM ConnectionHonest == Spec => []OneHonestConnection
<1>1. Inv => OneHonestConnection
  BY DEF Inv, ConnInv, Joined, OneHonestConnection, OneConnection, StateHonest
<1>. QED  BY <1>1, Inductive, PTL

\* A message is handed to a socket once and in the order of the calls, but for
\* those that were held back, and none is lost that the buffer does not discard,
\* across any number of reconnections (ws.ts 1273-1330).
THEOREM MessagesAlwaysKept == Spec => []MessagesKept
<1>1. Inv => MessagesKept
  BY DEF Inv, MsgInv, InOrder, WireInOrder, NoneLost, MessagesKept
<1>. QED  BY <1>1, Inductive, PTL

\* The pong timer is one of the connection in use, for any number of sockets and
\* reconnections (ws.ts 1378-1420).
THEOREM PongTimerAlwaysCurrent == Spec => []PongTimerCurrent
<1>1. Inv => PongTimerCurrent
  BY DEF Inv, ConnInv, Joined, PongTimerCurrent
<1>. QED  BY <1>1, Inductive, PTL
=============================================================================
