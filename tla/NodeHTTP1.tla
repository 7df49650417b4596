------------------------------- MODULE NodeHTTP1 -------------------------------
(***************************************************************************)
(* One request over node:http or node:https, as the transport sends it     *)
(* when there is a proxy, a private CA or no fetch, under the deadline of  *)
(* sendWithTimeout(): the agent, the dial, the writer of the body, the     *)
(* signals and the response.                                               *)
(*                                                                         *)
(* The timer is the only clock.  Headers, what the body says and what a    *)
(* proxy is told (Tunnel) are left out; a response is over when its body   *)
(* has been read or thrown away.                                           *)
(***************************************************************************)
EXTENDS Naturals

VARIABLES setup,      \* how the request goes, and what it carries
          stage,      \* idle, importing, encoding, made
          signalled,  \* the caller's signal has aborted
          fired,      \* the deadline has passed
          timer,      \* its timer is armed
          listening,  \* onAbort is on the signal
          missed,     \* history: the signal had aborted before anybody listened
          wire,       \* none, dialling (through the proxy), open, answered, closed
          writer,     \* none, writing, blocked (waits for "drain"), ended, broken
          agent,      \* none, live, gone (destroyed)
          result      \* what the caller of sendWithTimeout() has
httpVars == <<setup, stage, signalled, fired, timer, listening, missed, wire, writer, agent, result>>

\* "global" is a request without keep-alive and proxy: it goes by node's own agent.
Setups == [via : {"agent", "global", "proxy"}, body : {"none", "bytes", "form", "stream"},
           timeout : BOOLEAN, signal : BOOLEAN]

TypeOK ==
  /\ setup \in Setups /\ stage \in {"idle", "importing", "encoding", "made"}
  /\ {signalled, fired, timer, listening, missed} \subseteq BOOLEAN
  /\ wire \in {"none", "dialling", "open", "answered", "closed"}
  /\ writer \in {"none", "writing", "blocked", "ended", "broken"}
  /\ agent \in {"none", "live", "gone"}
  /\ result \in {"pending", "response", "error", "abort", "timeout"}

Init ==
  /\ setup \in Setups /\ stage = "idle"
  /\ signalled \in {FALSE, setup.signal} /\ fired = FALSE /\ timer = FALSE
  /\ listening = FALSE /\ missed = FALSE
  /\ wire = "none" /\ writer = "none" /\ agent = "none" /\ result = "pending"

\* The signal of the transport: the caller's and the deadline's, whichever comes first.
Merged == signalled \/ fired

\* The promise of the transport settles: the deadline is off, and what came after it is late.
Settle(r) ==
  /\ result' = CASE result # "pending" -> result
                 [] result = "pending" /\ fired -> "timeout"
                 [] OTHER -> r
  /\ timer' = FALSE

\* The request is gone, and "close" takes the listener off the signal.
Closed == wire' = "closed" /\ listening' = FALSE

Alive == wire \in {"dialling", "open", "answered"}

----------------------------------------------------------------------------
(* The making of the request.                                              *)

Begin ==
  /\ stage = "idle" /\ stage' = "importing" /\ timer' = setup.timeout
  /\ UNCHANGED <<setup, signalled, fired, listening, missed, wire, writer, agent, result>>

\* One agent for each scheme, made when it is needed; it dials by the proxy if there is one.
Dialled ==
  /\ agent' = IF setup.via = "global" THEN agent ELSE "live"
  /\ wire' = IF setup.via = "proxy" THEN "dialling" ELSE "open"

\* A body that is no stream is written at once.
Written == writer' = IF setup.body = "stream" THEN "writing" ELSE "ended"

\* The request listens for an abort that is still to come.
Make ==
  /\ stage' = "made" /\ Dialled /\ Written
  /\ listening' = (setup.signal \/ setup.timeout)
  /\ missed' = Merged

\* node:http is there: a form is encoded first, for its boundary.
Imported ==
  /\ stage = "importing"
  /\ IF setup.body = "form"
     THEN stage' = "encoding" /\ UNCHANGED <<wire, writer, agent, listening, missed>>
     ELSE Make
  /\ UNCHANGED <<setup, signalled, fired, timer, result>>

Encoded ==
  /\ stage = "encoding" /\ Make
  /\ UNCHANGED <<setup, signalled, fired, timer, result>>

----------------------------------------------------------------------------
(* The connection and the body.                                            *)

\* The agent hands the socket of the tunnel to the request.
Connected ==
  /\ wire = "dialling" /\ wire' = "open"
  /\ UNCHANGED <<setup, stage, signalled, fired, timer, listening, missed, writer, agent, result>>

\* A full socket: the writer waits for "drain", which a closed one never emits.
Blocked ==
  /\ writer = "writing" /\ writer' = "blocked"
  /\ UNCHANGED <<setup, stage, signalled, fired, timer, listening, missed, wire, agent, result>>

Drained ==
  /\ writer = "blocked" /\ wire \in {"open", "answered"} /\ writer' = "writing"
  /\ UNCHANGED <<setup, stage, signalled, fired, timer, listening, missed, wire, agent, result>>

\* The stream of the body ends; or fails, which ends the promise and not the request.
BodyEnds ==
  /\ writer = "writing"
  /\ \/ writer' = "ended" /\ UNCHANGED <<timer, result>>
     \/ writer' = "broken" /\ Settle("error")
  /\ UNCHANGED <<setup, stage, signalled, fired, listening, missed, wire, agent>>

Answered ==
  /\ wire = "open" /\ wire' = "answered" /\ Settle("response")
  /\ UNCHANGED <<setup, stage, signalled, fired, listening, missed, writer, agent>>

\* The body of the response has been read, or was thrown away.
Finished ==
  /\ wire = "answered" /\ Closed
  /\ UNCHANGED <<setup, stage, signalled, fired, timer, missed, writer, agent, result>>

\* The dial, the socket or the server's end of it.
Fails ==
  /\ Alive /\ Closed /\ Settle("error")
  /\ UNCHANGED <<setup, stage, signalled, fired, missed, writer, agent>>

\* destroy() hangs up the sockets of the agents; a dial under way has none yet.
Destroy ==
  /\ agent = "live" /\ agent' = "gone"
  /\ IF wire \in {"open", "answered"} THEN Closed /\ Settle("error")
     ELSE UNCHANGED <<wire, listening, timer, result>>
  /\ UNCHANGED <<setup, stage, signalled, fired, missed, writer>>

----------------------------------------------------------------------------
(* The signals.                                                            *)

\* onAbort destroys the request.
Heard(r) ==
  IF listening THEN Closed /\ Settle(r) ELSE UNCHANGED <<wire, listening, timer, result>>

CallerAborts ==
  /\ setup.signal /\ ~signalled /\ signalled' = TRUE
  /\ Heard("abort")
  /\ UNCHANGED <<setup, stage, fired, missed, writer, agent>>

\* Fault: the deadline is left to the transport.
RaceNot == Heard("timeout") /\ timer' = FALSE

\* The deadline is raced against the transport, and told to it.
Race ==
  /\ Settle("timeout")
  /\ IF listening THEN Closed ELSE UNCHANGED <<wire, listening>>

Fire ==
  /\ timer /\ fired' = TRUE /\ Race
  /\ UNCHANGED <<setup, stage, signalled, missed, writer, agent>>

Next ==
  \/ Begin \/ Imported \/ Encoded \/ Connected \/ Blocked \/ Drained \/ BodyEnds
  \/ Answered \/ Finished \/ Fails \/ Destroy \/ CallerAborts \/ Fire

Spec == Init /\ [][Next]_httpVars

----------------------------------------------------------------------------
\* A caller who has been told of a failure has left neither timer nor listener nor connection
\* behind, whatever came first of the abort, the deadline, the answer, the end of the body and
\* destroy(): except where the signal had aborted before the request was made, or where the
\* stream of the body failed; and a response is given in time only (core.ts 1380-1393,
\* 1522-1539, 1676-1720).
RequestsClosed ==
  /\ result # "pending" => ~timer
  /\ listening => Alive
  /\ result \in {"abort", "timeout", "error"} /\ Alive => missed \/ writer = "broken"
  /\ result = "response" => ~fired

\* With a deadline the caller has an answer, whatever the import, the dial, the body and the
\* server do, and though the transport may not have heard the signal (core.ts 1697-1700).
DeadlineHolds == setup.timeout /\ stage # "idle" ~> result # "pending"
=============================================================================
