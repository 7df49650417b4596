------------------------------- MODULE MCFlows -------------------------------
(***************************************************************************)
(* The parts whose callers must not wait for ever, side by side: the map   *)
(* of requests in flight, event streams, the attempt of a request with its *)
(* redirects, a request over node:http, and the reading of a body.  They   *)
(* share no state; a behaviour is of one of them, chosen at its beginning, *)
(* while the others keep one initial state.                                *)
(***************************************************************************)
EXTENDS Naturals, FiniteSets

CONSTANTS Calls, Windows, PromptTimers, MaxAborts,                  \* DedupMap
          Streams, MaxReconnects, Reconnect, MaxEvents, MaxStarts,  \* SSEClient
          Urls, Origin, First, MaxRedirects, MaxResends,            \* Exchange
          Jars, Authorised,
          MaxBody, MaxBytes,                                        \* BodyReader
          None

ASSUME FlowsAssumption ==
  /\ Windows \subseteq Nat /\ \E w \in Windows : \A v \in Windows : v <= w
  /\ None \notin Nat \cup Calls
  /\ First \in Urls
  /\ MaxReconnects \in Nat /\ MaxEvents \in Nat /\ MaxStarts \in Nat
  /\ MaxRedirects \in Nat /\ MaxResends \in Nat
  /\ MaxBody \in Nat /\ MaxBytes \in Nat /\ None \notin {"done", "limit"}

\* For TLC: the pages of one origin, and one of another.
CONSTANT other
OneForeign == [u \in Urls |-> IF u = other THEN "foreign" ELSE "home"]

VARIABLES focus   \* the part that moves
VARIABLES owner, entry, window, age, timer, timerOf, role, leader, outcome, gaveUp, dropped,
          wiped, hits, misses
VARIABLES closed, stopped, controller, torn, connected, lastEventId, reconnects, at, next, part,
          pending, dog, starts, given
VARIABLES place, depth, request, current, limit, hop, visited, trail, deaf, jar, status, open, armed,
          aborted, told
VARIABLES setup, stage, signalled, fired, deadline, listening, missed, wire, writer, agent, result

VARIABLES conf, length, duct, arrived, passed, readable, taken, abandoned, verdict

Dedup    == INSTANCE DedupMap WITH aborted <- gaveUp
Sse      == INSTANCE SSEClient WITH aborted <- stopped
Exchange == INSTANCE Exchange
Http     == INSTANCE NodeHTTP1 WITH timer <- deadline
Body     == INSTANCE BodyReader WITH total <- length, wire <- duct, out <- readable,
                                     aborted <- abandoned, result <- verdict

dedup    == <<owner, entry, window, age, timer, timerOf, role, leader, outcome, gaveUp, dropped,
              wiped, hits, misses>>
sse      == <<closed, stopped, controller, torn, connected, lastEventId, reconnects, at, next,
              part, pending, dog, starts, given>>
exchange == <<place, depth, request, current, limit, hop, visited, trail, deaf, jar, status,
              open, armed, aborted, told>>
http     == <<setup, stage, signalled, fired, deadline, listening, missed, wire, writer, agent,
              result>>
body     == <<conf, length, duct, arrived, passed, readable, taken, abandoned, verdict>>
vars     == <<focus, dedup, sse, exchange, http, body>>

\* Bounds: which methods have credentials, what the jar holds at first (of the focus), and how
\* many signals of calls fire.
Init ==
  /\ focus \in {"dedup", "sse", "exchange", "http", "body"}
  /\ Dedup!Init /\ Sse!Init /\ Exchange!Init /\ Http!Init /\ Body!Init
  /\ focus # "exchange" => /\ jar = {} /\ limit = 0
                           /\ request.method = "GET" /\ ~request.auth
  /\ focus = "exchange" => /\ jar \in Jars
                           /\ (request.auth => request.method \in Authorised)
  /\ focus # "http" => /\ setup = [via |-> "agent", body |-> "none", timeout |-> FALSE,
                                   signal |-> FALSE]
  /\ focus # "body" => /\ length = 0
                       /\ conf = [reader |-> "raw", mode |-> "throw", decoder |-> "none"]

\* Calls of a key are named in the order in which they are made.
Named == \A c, d \in Calls : c < d /\ role[d] # "new" => role[c] # "new"

\* A step of one part.
OfDedup(A)    == focus = "dedup" /\ A /\ Named' /\ Cardinality(gaveUp') <= MaxAborts
                   /\ UNCHANGED <<focus, sse, exchange, http, body>>
OfSse(A)      == focus = "sse" /\ A /\ UNCHANGED <<focus, dedup, exchange, http, body>>
OfExchange(A) == focus = "exchange" /\ A /\ UNCHANGED <<focus, dedup, sse, http, body>>
OfHttp(A)     == focus = "http" /\ A /\ UNCHANGED <<focus, dedup, sse, exchange, body>>
OfBody(A)     == focus = "body" /\ A /\ UNCHANGED <<focus, dedup, sse, exchange, http>>

Next == OfDedup(Dedup!Next) \/ OfSse(Sse!Next) \/ OfExchange(Exchange!Next)
          \/ OfHttp(Http!Next) \/ OfBody(Body!Next)

\* The fairness of the parts, of which each says what it rests on.
Fairness ==
  /\ WF_vars(OfDedup(Dedup!Expire)) /\ WF_vars(OfDedup(Dedup!Tick))
  /\ \A c \in Calls : WF_vars(OfDedup(Dedup!Settle(c)))
  /\ \A s \in Streams :
       /\ WF_vars(OfSse(Sse!Cancelled(s))) /\ WF_vars(OfSse(Sse!StopReading(s)))
       /\ WF_vars(OfSse(Sse!GoOn(s))) /\ WF_vars(OfSse(Sse!Wake(s)))
  /\ WF_vars(OfExchange(Exchange!Proceed)) /\ WF_vars(OfExchange(Exchange!Abort))
  /\ WF_vars(OfHttp(Http!Fire))

Spec     == Init /\ [][Next]_vars
FairSpec == Spec /\ Fairness

----------------------------------------------------------------------------
\* What is in flight for a key has it or was deleted by a timer that outlived its own result,
\* and whoever shares ends as the leader does: see DedupMap.
MapExact == Dedup!TypeOK /\ Dedup!SingleFlight /\ Dedup!TimerTraced /\ Dedup!SharersFollow

\* A result stays for the whole window of its leader, or of a caller with a shorter one: see
\* DedupMap.
WindowHonoured == Dedup!WindowHonoured

\* The consumer of an event stream is given every event once: see SSEClient.
NothingSkipped == Sse!TypeOK /\ Sse!NothingSkipped

\* Along a chain of redirects, credentials and cookies stay with their origins and the
\* request keeps what it was: see Exchange.
RedirectsSafe == Exchange!CredentialsStayHome /\ Exchange!ChainKeepsRequest

\* No timer, controller or body is left behind by an attempt, no listener or connection by a
\* request, and no stream by who is done with a body, which is whole or cut at the limit: see
\* Exchange, NodeHTTP1 and BodyReader.
NothingHeld ==
  /\ Exchange!TypeOK /\ Exchange!NothingHeld
  /\ Http!TypeOK /\ Http!RequestsClosed
  /\ Body!TypeOK /\ Body!BodyWhole /\ Body!SourceReleased

\* Whoever shares a promise is answered, a window ends, a stream that was stopped ends, and
\* so does every attempt, and every request with a deadline: see the parts.
EveryoneAnswered ==
  /\ Dedup!SharersAnswered /\ Dedup!WindowEnds
  /\ Sse!StoppedEnds
  /\ focus = "exchange" => Exchange!CallEnds
  /\ Http!DeadlineHolds
=============================================================================
