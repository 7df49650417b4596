-------------------------------- MODULE MCLists --------------------------------
(***************************************************************************)
(* What arrives in pieces, and what is kept of answers for later, side by  *)
(* side: the text of an event stream and the values in a body, the         *)
(* progress of a transfer, log entries, the rules of cookies, the response *)
(* cache and the lifetimes of what it holds.  They share no state; a       *)
(* behaviour is of one of them, chosen at its beginning, while the others  *)
(* keep one initial state.                                                 *)
(***************************************************************************)
EXTENDS HTTPCache, Integers, TLC

CONSTANTS MaxAttrs, MaxHeaders,                            \* CookieRules
          MaxText, MaxChunk,                               \* ChunkParsers
          Requests, Excluded, SweepAbove, LogBatch,        \* LogDelivery
          BatchSize, SmallBatch,
          VaryFields, Values, DefaultTtl, MaxAbsoluteAge,  \* Freshness
          MaxTime, Unreadable, Answers, Renewals,
          BodyChunks, MaxInstant                           \* Progress

VARIABLES focus   \* the part that moves
VARIABLES cookie, setter, line
VARIABLES parser, out, automaton, expected, text, cut
VARIABLES form, arriving, reader, dirty
VARIABLES made, answered, active, buffer, logTimer, remote, remoteTimer, posts, received, lost
VARIABLES now, entry, request, said
VARIABLES way, instant, trackers, shown, overall, source, left, reading, passing, queued, got,
          signalled, attached, reached, hungUp, ending

Hosts      == {<<"a", "s", "k">>, <<"s", "k">>, <<"k">>, <<"b", "v", "w">>, <<"v", "w">>,
               <<"c", "w">>}
Exact      == {<<"k">>, <<"w">>}
Wildcards  == {<<"w">>}
Exceptions == {<<"c", "w">>}
Paths      == {<<"">>, <<"a", "b">>, <<"a", "..", "a", "">>}
\* Set-Cookie headers: a name, a value with commas in and out of quotes, an attribute.
Bodies     ==
  {<<"n", "=">> \o v \o x :
     v \in {<<>>, <<"n">>, <<"'", "n", ",", "n", "=", "n", "'">>,
            <<"'", "\\", "'", ",", "n", "'">>},
     x \in {<<>>, <<";", " ", "n">>, <<";", " ", "n", "=", "n", ",", " ", "n">>,
            <<";", "n", "=", "n", ",", " ", "n", ";", " ", "n">>}}

\* Headers of a response, and of a 304 that renews it: lifetimes and ages, dates, stale windows,
\* flags and what to match, each with what it meets in the code.
Controls(maxAges, windows, flags) ==
  {c \in [maxAge : maxAges, sMaxAge : {None}, swr : {None, 1}, sie : {None, 2}, flags : flags] :
     <<c.swr, c.sie>> \in windows}
Headers ==
  LET none == {<<None, None>>}
      some == {<<None, None>>, <<1, None>>}
      plain(cs, ages, expires, modified, vary) ==
        [control : cs, age : ages, expires : expires, modified : modified, vary : vary]
  IN plain(Controls({0, 2}, {<<None, None>>, <<1, None>>, <<None, 2>>}, {{}}),
           {0, 1}, {None}, {None}, {{}})
     \cup plain({[c EXCEPT !.sMaxAge = 1] : c \in Controls({2}, none, {{}})},
                {0, 1}, {None}, {None}, {{}})
     \cup plain(Controls({None}, some, {{}}), {1}, {None}, {Unreadable, 20, -5, -30}, {{}})
     \cup plain(Controls({None, 2}, none, {{}}), {0}, {Unreadable, 3}, {None, -5}, {{}})
     \cup plain(Controls({None, 2}, some, {{"no-store"}, {"no-cache"}, {"immutable"}}),
                {0, 1}, {None}, {None}, {{}})
     \cup plain(Controls({None, 2}, some, {{}}), {0}, {None}, {None}, {{}, {"f"}, {"*"}})
Renewing ==
  [control : Controls({1}, {<<None, None>>}, {{}}), vary : {{"f"}}]
    \cup [control : Controls({3}, {<<None, None>>}, {{}}), age : {1}]
    \cup [control : Controls({None}, {<<None, None>>}, {{"no-store"}, {"no-cache"}})]
    \cup [modified : {-20}]

Rules   == INSTANCE CookieRules
Parsers == INSTANCE ChunkParsers
Logs    == INSTANCE LogDelivery WITH MaxBatch <- LogBatch, timer <- logTimer
Cached  == INSTANCE Freshness WITH Responses <- Answers
Shown   == INSTANCE Progress WITH Interval <- 2, made <- shown, out <- passing,
                                  listening <- attached, heard <- reached

rules   == <<cookie, setter, line>>
events  == <<parser, out, automaton, expected, text, cut>>
values  == <<form, arriving, reader, dirty>>
logs    == <<made, answered, active, buffer, logTimer, remote, remoteTimer, posts, received, lost>>
fresh   == <<now, entry, request, said>>
bars    == <<way, instant, trackers, shown, overall, source, left, reading, passing, queued, got,
             signalled, attached, reached, hungUp, ending>>
parts   == <<focus, rules, events, values, logs, fresh, bars>>

\* The parts at rest have one initial state.
ListsInit ==
  /\ focus \in {"rules", "events", "values", "logs", "fresh", "progress", "cache"}
  /\ focus # "values" => form = "json"
  /\ focus # "progress" => way = "iterate"
  /\ Init /\ Rules!Init /\ Parsers!Init /\ Logs!Init /\ Cached!Init /\ Shown!Init

PartsNext ==
  \/ focus = "rules" /\ Rules!Next /\ UNCHANGED <<focus, events, values, logs, fresh, bars>>
  \/ focus = "events" /\ Parsers!EventsNext /\ UNCHANGED <<focus, rules, logs, fresh, bars>>
  \/ focus = "values" /\ Parsers!ValuesNext /\ UNCHANGED <<focus, rules, logs, fresh, bars>>
  \/ focus = "logs" /\ Logs!Next /\ UNCHANGED <<focus, rules, events, values, fresh, bars>>
  \/ focus = "fresh" /\ Cached!Next /\ UNCHANGED <<focus, rules, events, values, logs, bars>>
  \/ focus = "progress" /\ Shown!Next /\ UNCHANGED <<focus, rules, events, values, logs, fresh>>

ListsNext == \/ PartsNext /\ UNCHANGED vars
             \/ focus = "cache" /\ Next /\ UNCHANGED parts

ListsSpec == ListsInit /\ [][ListsNext]_<<parts, vars>>

----------------------------------------------------------------------------
\* Events and values are those of the whole text, but for the two places where a chunk may end
\* and the parsers lose their state, and then exactly what that makes of them; whoever watches
\* a transfer is told how it ended, and a log entry arrives once and is never left behind: see
\* ChunkParsers, Progress and LogDelivery.
ArrivesWhole ==
  /\ focus = "events" => Parsers!EventsWhole
  /\ focus = "values" => Parsers!ValuesWhole
  /\ focus = "progress" => Shown!ProgressHolds
  /\ focus = "logs" => Logs!TypeOK /\ Logs!EntriesAccounted /\ Logs!ActiveExact

\* A cached response is given out while its origin allows it and to the requests it fits, and
\* a cookie is read as it was written and shown where it belongs: see Freshness and CookieRules.
KeptHonest ==
  /\ focus = "fresh" => Cached!FreshnessHolds
  /\ focus = "rules" => Rules!RulesHold
=============================================================================
