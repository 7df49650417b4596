-------------------------------- MODULE Tunnel --------------------------------
(***************************************************************************)
(* A connection through a proxy: createSocks5Tunnel with its handshake and *)
(* its retries, and connectThroughProxy with the CONNECT request and TLS   *)
(* to the target behind it.                                                *)
(*                                                                         *)
(* An answer of the proxy arrives as one step however many reads it takes, *)
(* and may bring the first bytes of the target along.  Addresses, codes    *)
(* and the text of the messages are left out.                              *)
(***************************************************************************)
EXTENDS Naturals

CONSTANTS MaxRetries, None

VARIABLES setup,          \* which proxy, credentials, time limit, TLS, signal
          at,             \* how far the attempt has come
          attempt,
          sock,           \* of this attempt: none, open or closed
          armed,          \* what may still call back: a timer, a listener of the signal
          late,           \* dials that were given up before they settled
          leaked,         \* those of them that connected
          opened, shut,   \* history: connections made and closed
          granted,        \* history: the proxy has agreed to connect
          early,          \* bytes of the target that came with the proxy's last answer
          result
tunnelVars == <<setup, at, attempt, sock, armed, late, leaked, opened, shut, granted, early, result>>

Setups == [via : {"socks", "connect"}, auth : BOOLEAN, limited : BOOLEAN, tls : BOOLEAN,
           signal : BOOLEAN]

TypeOK ==
  /\ setup \in Setups /\ attempt \in 0..MaxRetries
  /\ at \in {"dialling", "greeting", "authing", "asking", "head", "handshake", "backoff", "ended"}
  /\ sock \in {"none", "open", "closed"} /\ armed \subseteq {"timer", "signal"}
  /\ late \in 0..MaxRetries + 1 /\ leaked \in 0..MaxRetries + 1
  /\ opened \in 0..MaxRetries + 1 /\ shut \in 0..MaxRetries + 1
  /\ granted \in BOOLEAN /\ early \in {"none", "kept", "lost"}
  /\ result \in {None, "tunnel", "refused", "unreachable", "ENETWORK", "ETIMEOUT", "EABORT"}

Socks == setup.via = "socks"

\* What a stage registers: withTimeout a timer, connectThroughProxy both.
Registered == {w \in {"timer", "signal"} : IF w = "timer" THEN setup.limited ELSE setup.signal}
Stage(s)   == at' = s /\ armed' = Registered

\* createSocks5Tunnel takes no signal, and connectThroughProxy always has a time limit.
Init ==
  /\ setup \in {s \in Setups : IF s.via = "socks" THEN ~s.tls /\ ~s.signal
                                                   ELSE ~s.auth /\ s.limited}
  /\ at = "dialling" /\ attempt = 0 /\ sock = "none" /\ result = None
  /\ armed = Registered
  /\ late = 0 /\ leaked = 0 /\ opened = 0 /\ shut = 0 /\ granted = FALSE /\ early = "none"

----------------------------------------------------------------------------
\* Fault: the handshake fails and its connection stays.
ClosedNot == UNCHANGED <<sock, shut>>

Closed == /\ sock' = IF sock = "open" THEN "closed" ELSE sock
          /\ shut' = shut + (IF sock = "open" THEN 1 ELSE 0)

\* withRetry: only what may pass is tried again, and only over SOCKS.
Fail(why, retriable) ==
  /\ Closed /\ armed' = {}
  /\ IF Socks /\ retriable /\ attempt < MaxRetries
       THEN at' = "backoff" /\ UNCHANGED result
       ELSE at' = "ended" /\ result' = why
  /\ UNCHANGED <<setup, attempt, opened, granted, early>>

BackoffEnds ==
  /\ at = "backoff"
  /\ attempt' = attempt + 1 /\ sock' = "none" /\ Stage("dialling")
  /\ UNCHANGED <<setup, late, leaked, opened, shut, granted, early, result>>

DialSucceeds ==
  /\ at = "dialling"
  /\ sock' = "open" /\ opened' = opened + 1
  /\ Stage(IF Socks THEN "greeting" ELSE "head")
  /\ UNCHANGED <<setup, attempt, late, leaked, shut, granted, early, result>>

\* Refused connections are retried, names that do not resolve are not.
DialFails(transient) ==
  /\ at = "dialling" /\ Fail(IF Socks THEN "unreachable" ELSE "ENETWORK", transient)
  /\ UNCHANGED <<late, leaked>>

\* openTcpSocket destroys the socket it gives up; withTimeout only stops to wait.
DialTimesOut ==
  /\ at = "dialling" /\ "timer" \in armed
  /\ Fail("ETIMEOUT", TRUE)
  /\ late' = late + (IF Socks THEN 1 ELSE 0) /\ UNCHANGED leaked

\* The connection that nobody waits for any more: it is not closed.
LateDial(connected) ==
  /\ late > 0
  /\ late' = late - 1
  /\ leaked' = leaked + (IF connected THEN 1 ELSE 0)
  /\ opened' = opened + (IF connected THEN 1 ELSE 0)
  /\ UNCHANGED <<setup, at, attempt, sock, armed, shut, granted, early, result>>

Goes(s) == Stage(s) /\ UNCHANGED <<setup, attempt, sock, late, leaked, opened, shut, granted,
                                   early, result>>

\* performHandshake: the method the proxy has chosen.
Method(m) ==
  /\ at = "greeting"
  /\ CASE m = "open"                    -> Goes("asking")
       [] m = "password" /\ setup.auth  -> Goes("authing")
       [] OTHER                         -> Fail("refused", FALSE) /\ UNCHANGED <<late, leaked>>

\* performUserPassAuth.
Password(accepted) ==
  /\ at = "authing"
  /\ IF accepted THEN Goes("asking") ELSE Fail("refused", FALSE) /\ UNCHANGED <<late, leaked>>

Handed == at' = "ended" /\ result' = "tunnel" /\ armed' = {}

\* The reply with the bound address; what has been read beyond it stays in the reader.
Reply(code, more) ==
  /\ at = "asking"
  /\ IF code = "succeeded"
       THEN /\ Handed /\ granted' = TRUE /\ early' = IF more THEN "lost" ELSE "none"
            /\ UNCHANGED <<setup, attempt, sock, opened, shut>>
       ELSE Fail("refused", code = "unreachable")
  /\ UNCHANGED <<late, leaked>>

\* onReadable: what follows the head is put back in front of the stream.
Head(ok, more) ==
  /\ at = "head"
  /\ IF ok
       THEN /\ granted' = TRUE /\ early' = IF more THEN "kept" ELSE "none"
            /\ IF setup.tls THEN Stage("handshake") /\ UNCHANGED result ELSE Handed
            /\ UNCHANGED <<setup, attempt, sock, opened, shut>>
       ELSE Fail("refused", FALSE)
  /\ UNCHANGED <<late, leaked>>

TlsDone ==
  /\ at = "handshake"
  /\ Handed
  /\ UNCHANGED <<setup, attempt, sock, late, leaked, opened, shut, granted, early>>

Waiting == at \in {"greeting", "authing", "asking", "head", "handshake"}

\* The proxy hangs up, or the connection breaks.
Breaks ==
  /\ Waiting /\ Fail("ENETWORK", FALSE)
  /\ UNCHANGED <<late, leaked>>

AnswerTimesOut ==
  /\ Waiting /\ "timer" \in armed /\ Fail("ETIMEOUT", TRUE)
  /\ UNCHANGED <<late, leaked>>

Abort ==
  /\ "signal" \in armed /\ Fail("EABORT", FALSE)
  /\ UNCHANGED <<late, leaked>>

Next ==
  \/ BackoffEnds \/ DialSucceeds \/ DialTimesOut \/ TlsDone \/ Breaks \/ AnswerTimesOut \/ Abort
  \/ \E b \in BOOLEAN : DialFails(b) \/ LateDial(b) \/ Password(b)
  \/ \E m \in {"open", "password", "other"} : Method(m)
  \/ \E c \in {"succeeded", "unreachable", "failed"}, b \in BOOLEAN : Reply(c, b)
  \/ \E ok, b \in BOOLEAN : Head(ok, b)

Spec == Init /\ [][Next]_tunnelVars

----------------------------------------------------------------------------
\* Every connection that was made has been closed, is the one handed to the caller, is in
\* the attempt's hands, or comes from a dial that was given up; once all is over nothing
\* can call back (socks5.ts 644-699, proxy.ts 226-458).
ConnectionsAccounted ==
  /\ opened = shut + leaked + (IF sock = "open" THEN 1 ELSE 0)
  /\ at = "ended" => armed = {} /\ (sock = "open" <=> result = "tunnel")
  /\ ~Socks => leaked = 0

\* The caller is handed a tunnel only if the proxy agreed in the same attempt, and what the
\* target said by then is not lost over CONNECT (proxy.ts 209-275).
TunnelHonest ==
  /\ result = "tunnel" <=> granted /\ at = "ended" /\ sock = "open"
  /\ ~Socks => early # "lost"
=============================================================================
