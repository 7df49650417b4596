------------------------------- MODULE MCGates -------------------------------
(***************************************************************************)
(* The parts a request may have to pass and that share no state with each  *)
(* other, side by side: the making of its URL and of its headers, what     *)
(* send() does before it dispatches, the HTTP/2 sessions, the streams of   *)
(* one request, a connection through a proxy, what is said over a          *)
(* WebSocket, the interceptor suite, the rate limiter and the delays of    *)
(* retries.  A behaviour is of one of them, chosen at its beginning, while *)
(* the others keep one initial state.                                      *)
(***************************************************************************)
EXTENDS Integers, Sequences, FiniteSets, TLC

CONSTANTS Requests, Origins, None                  \* of several parts
CONSTANTS Names, MaxSessions,                      \* SessionPool
          MaxHops,                                 \* H2Exchange
          MaxRedials,                              \* Tunnel
          Inquirers, Openers, Drainers,            \* WSTalk
          MaxBuffer, HighMark, LowMark, MaxCalls,
          MaxRetries, AuthQueue,                   \* InterceptorSuite
          Callers, Limit, WindowMs, RateQueue, MaxTime,  \* RateLimiter
          PerSecond, Day, MaxExponent, MaxNumber,  \* Backoff
          MaxMaps,                                 \* SendPrelude
          MaxParams, MaxLength, Octets,            \* URLBuild
          MaxTables, MaxChanges, MaxText           \* HeaderTable

ASSUME GatesAssumption ==
  /\ IsFiniteSet(Origins) /\ IsFiniteSet(Requests)
  /\ None \notin Requests \cup Origins \cup Names /\ \A S \in SUBSET Requests : S # None
  /\ MaxSessions \in Nat \ {0} /\ MaxHops \in Nat \ {0} /\ MaxRedials \in Nat
  /\ (Inquirers \cup Openers) \cap Drainers = {}
  /\ MaxBuffer \in Nat \ {0} /\ HighMark \in Nat \ {0} /\ LowMark \in Nat \ {0}
  /\ MaxRetries \in Nat /\ AuthQueue \in Nat
  /\ Limit \in Nat \ {0} /\ WindowMs \in Nat \ {0} /\ RateQueue \in Nat \cup {-1}
  /\ MaxTime \in Nat /\ None \notin Nat /\ None # "tunnel"

VARIABLES focus   \* the part that moves
VARIABLES pool, usage, timers, creating, ses, pinged, req, strayed, crowded
VARIABLES ask, place, hop, kept, stream, streamTimer, listening, cancelled, taken, http1Only,
          result, acted
VARIABLES setup, stage, dial, sock, armed, late, leaked, opened, shut, granted, early, handed
VARIABLES keeps, throttled, link, closed, silent, rooms, joined, buffer, heard, where, calls
VARIABLES at, attempt, aborted, timer, keyed, authRetried, status, slot, refresher,
          authQueue, cooling, lateHit
VARIABLES clock, tokens, lastRefill, pending, refillTimer, caller, grants
VARIABLES config, header, failed, delay
VARIABLES asked, built, again, spelled
VARIABLES given, whereabouts, sending, tracer, map, maps, breaker, span, ends, key, through, outcome
VARIABLES tables, heap, changes, question, answer

\* URLs of a client, with a path that ends in a name or in a slash, and of its requests.
Bases ==
  {[scheme |-> "https", host |-> "here", path |-> p[1], query |-> p[2], hash |-> None] :
     p \in {<<<<"">>, <<>>>>, <<<<"v">>, <<<<"k", "b">>>>>>, <<<<"v", "">>, <<>>>>}}
Paths == {<<>>, <<"u">>, <<"u", "..", "..", "w">>, <<"u", "">>, <<"..">>}
QueriesOf == {<<>>, <<<<"k", "r">>>>}
Param(array, values) == [key |-> "k", brackets |-> "k[]", array |-> array, values |-> values]
ParamLists ==
  {<<>>, <<Param(FALSE, <<"p">>)>>, <<Param(TRUE, <<"p", None, "q">>)>>,
   <<Param(FALSE, <<"object">>)>>, <<Param(TRUE, <<"p", "q">>), Param(FALSE, <<"p">>)>>}

\* Headers: one spelled in two ways, one that requests may not set, one that is not joined.
HeaderNames ==
  {[key |-> h[1], as |-> h[2]] :
     h \in {<<"accept", "accept">>, <<"accept", "Accept">>, <<"cookie", "cookie">>,
            <<"set-cookie", "set-cookie">>}}
Chars == {"a", ";", ",", "\"", "\\", " ", "<"}

Alike == Permutations(Requests) \cup Permutations(Origins) \cup Permutations(Names)

Sessions == INSTANCE SessionPool WITH Sessions <- Names
Streams  == INSTANCE H2Exchange WITH timer <- streamTimer
Proxied  == INSTANCE Tunnel WITH MaxRetries <- MaxRedials, at <- stage, attempt <- dial,
                                 result <- handed
Talk     == INSTANCE WSTalk WITH Rooms <- Origins, Requests <- Inquirers, aborted <- closed
Suite    == INSTANCE InterceptorSuite WITH MaxQueue <- AuthQueue
Rate     == INSTANCE RateLimiter WITH MaxQueue <- RateQueue, timer <- refillTimer, at <- caller
Delays   == INSTANCE Backoff WITH attempt <- failed
URLs     == INSTANCE URLBuild WITH Queries <- QueriesOf, Params <- ParamLists
Prelude  == INSTANCE SendPrelude WITH at <- whereabouts
Headers  == INSTANCE HeaderTable WITH Names <- HeaderNames, Values <- {<<"v">>, <<"w">>},
                                      asked <- question

sessionVars == <<pool, usage, timers, creating, ses, pinged, req, strayed, crowded>>
streamVars  == <<ask, place, hop, kept, stream, streamTimer, listening, cancelled, taken,
                 http1Only, result, acted>>
proxyVars   == <<setup, stage, dial, sock, armed, late, leaked, opened, shut, granted, early,
                 handed>>
talkVars    == <<keeps, throttled, link, closed, silent, rooms, joined, buffer, heard, where,
                 calls>>
suiteVars   == <<at, attempt, aborted, timer, keyed, authRetried, status, slot, refresher,
                 authQueue, cooling, lateHit>>
rateVars    == <<clock, tokens, lastRefill, pending, refillTimer, caller, grants>>
delayVars   == <<config, header, failed, delay>>
urlVars     == <<asked, built, again, spelled>>
sendVars    == <<given, whereabouts, sending, tracer, map, maps, breaker, span, ends, key, through,
                 outcome>>
headerVars  == <<tables, heap, changes, question, answer>>
connections == <<sessionVars, streamVars, proxyVars, talkVars>>
limits      == <<suiteVars, rateVars, delayVars>>
making      == <<urlVars, sendVars, headerVars>>
gatesVars   == <<focus, connections, limits, making>>

\* The parts at rest have one initial state.
Init ==
  /\ focus \in {"sessions", "streams", "proxy", "talk", "suite", "rate", "delays",
               "urls", "send", "headers"}
  /\ focus # "proxy" => setup = [via |-> "connect", auth |-> FALSE, limited |-> TRUE, tls |-> FALSE,
                                signal |-> FALSE]
  /\ focus # "streams" => /\ ask = CHOOSE a \in Streams!Asks : a.safe /\ a.body = "none"
                          /\ http1Only = TRUE
  /\ focus # "delays" => /\ config = [base |-> 0, max |-> 0, jitter |-> 0]
                         /\ header = [kind |-> "none"]
  /\ focus # "urls" => asked = CHOOSE a \in URLs!Asks : TRUE
  /\ focus # "send" => /\ given = CHOOSE g \in Prelude!Givens : TRUE
                       /\ tracer = FALSE /\ breaker = FALSE
  /\ focus # "talk" => keeps = TRUE /\ throttled = FALSE /\ rooms = {}
  /\ Sessions!Init /\ Streams!Init /\ Proxied!Init /\ Talk!Init /\ Suite!Init /\ Rate!Init
  /\ Delays!Init /\ URLs!Init /\ Prelude!Init /\ Headers!Init

Next ==
  \/ /\ focus = "sessions" /\ Sessions!Next
     /\ UNCHANGED <<focus, streamVars, proxyVars, talkVars, limits, making>>
  \/ /\ focus = "streams" /\ Streams!Next
     /\ UNCHANGED <<focus, sessionVars, proxyVars, talkVars, limits, making>>
  \/ /\ focus = "proxy" /\ Proxied!Next
     /\ UNCHANGED <<focus, sessionVars, streamVars, talkVars, limits, making>>
  \/ /\ focus = "talk" /\ Talk!Next
     /\ UNCHANGED <<focus, sessionVars, streamVars, proxyVars, limits, making>>
  \/ /\ focus = "suite" /\ Suite!Next
     /\ UNCHANGED <<focus, connections, rateVars, delayVars, making>>
  \/ /\ focus = "rate" /\ Rate!Next
     /\ UNCHANGED <<focus, connections, suiteVars, delayVars, making>>
  \/ /\ focus = "delays" /\ Delays!Next
     /\ UNCHANGED <<focus, connections, suiteVars, rateVars, making>>
  \/ /\ focus = "urls" /\ URLs!Next
     /\ UNCHANGED <<focus, connections, limits, sendVars, headerVars>>
  \/ /\ focus = "send" /\ Prelude!Next
     /\ UNCHANGED <<focus, connections, limits, urlVars, headerVars>>
  \/ /\ focus = "headers" /\ Headers!Next
     /\ UNCHANGED <<focus, connections, limits, urlVars, sendVars>>

Spec == Init /\ [][Next]_gatesVars

----------------------------------------------------------------------------
\* An origin has one session, within the limit, and the pool's books agree; and the rate
\* limit holds over every stretch of time: see SessionPool and RateLimiter.
LimitsHeld ==
  /\ focus = "sessions" => Sessions!TypeOK /\ Sessions!BooksAgree /\ Sessions!OneSession
  /\ focus = "rate" => Rate!TypeOK /\ Rate!RateHeld

\* No stream, connection, timer or listener is left behind, a body that can be read once is
\* sent once, a tunnel was granted by its proxy, and an open WebSocket is in the rooms its
\* client says it is in: see H2Exchange, Tunnel and WSTalk.
ConnectionsHonest ==
  /\ focus = "streams" => Streams!TypeOK /\ Streams!NothingArmed /\ Streams!BodyOnce
  /\ focus = "proxy" => Proxied!TypeOK /\ Proxied!ConnectionsAccounted /\ Proxied!TunnelHonest
  /\ focus = "talk" => Talk!TypeOK /\ Talk!RoomsAgree

\* Whoever waits, for a session, a connection, a deduplicated answer, a token of the
\* authorization or of the rate limit, waits for something that is on its way: see the parts.
NobodyStranded ==
  /\ focus = "sessions" => Sessions!NobodyForgotten
  /\ focus = "talk" => Talk!TalkersWatched
  /\ focus = "suite" => Suite!NobodyStranded
  /\ focus = "rate" => Rate!QueueHasTimer

\* A deduplicated answer goes to those who wait for it: see InterceptorSuite.
OnlyWaitersTold == focus = "suite" => Suite!TypeOK /\ Suite!OnlyWaitersTold

\* A request goes to the URL, with the headers, the body and the key that its caller and its
\* client gave, its span is ended once, and it is sent again after a delay within its bounds:
\* see URLBuild, HeaderTable, SendPrelude and Backoff.
RequestsBuilt ==
  /\ focus = "urls" => URLs!URLsHold
  /\ focus = "send" => Prelude!PreludeHolds
  /\ focus = "headers" => Headers!HeadersHold
  /\ focus = "delays" => Delays!DelaysHold
=============================================================================
