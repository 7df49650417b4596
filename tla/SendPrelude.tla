----------------------------- MODULE SendPrelude -----------------------------
(***************************************************************************)
(* What send() does before it is dispatched (client.ts 2340-2806): the     *)
(* checks, the body and its type, the credentials, transformRequest, the   *)
(* jar, the span and the key, and how the call passes the breaker and the  *)
(* map of deduplicated requests, while its caller switches these on and    *)
(* off.  The URL is built in URLBuild; what happens inside is the matter   *)
(* of SendPipeline and Exchange.                                           *)
(***************************************************************************)
EXTENDS Naturals

CONSTANTS MaxMaps,   \* calls of enableDedup()
          None

VARIABLES given,     \* what the caller and the config say
          at,        \* where the call waits
          sending,   \* the request
          tracer, map, maps, breaker,   \* of the client: a tracer, a map or 0, a breaker
          span, ends,  \* the span of the call, and how often it was ended
          key,
          through,   \* the map and the breaker the call went through
          outcome
preludeVars == <<given, at, sending, tracer, map, maps, breaker, span, ends, key, through, outcome>>

Givens ==
  {g \in [body : {None, "text", "object", "form", "params", "stream"}, type : BOOLEAN,
          large : BOOLEAN, limited : BOOLEAN, auth : {None, "call", "off"}, client : BOOLEAN,
          url : BOOLEAN, header : BOOLEAN, cookie : BOOLEAN, traced : BOOLEAN] :
     \* one thing at a time: the body, or the credentials
     \/ g.auth = None /\ ~g.client /\ ~g.url /\ ~g.header /\ ~g.cookie /\ ~g.traced
     \/ g.body = None /\ ~g.type /\ ~g.large /\ ~g.limited}

Request == [body : {None, "text", "object", "form", "multipart", "json", "params", "stream"},
            type : {None, "own", "multipart", "json", "params"},
            authorization : {None, "own", "call", "client", "url"},
            cookie : {None, "own", "jar"}, trace : BOOLEAN, changed : BOOLEAN]

TypeOK ==
  /\ given \in Givens /\ sending \in Request \cup {None}
  /\ at \in {"start", "auth", "transform", "jar", "key", "inside", "over"}
  /\ tracer \in BOOLEAN /\ map \in 0..maps /\ maps \in 0..MaxMaps /\ breaker \in BOOLEAN
  /\ span \in BOOLEAN /\ ends \in Nat /\ outcome \in {None, "ok", "refused", "failed"}

Init ==
  /\ given \in Givens /\ at = "start" /\ sending = None
  /\ tracer \in BOOLEAN /\ breaker \in BOOLEAN /\ map = 0 /\ maps = 0
  /\ span = FALSE /\ ends = 0 /\ key = None /\ through = None /\ outcome = None

----------------------------------------------------------------------------
(* The caller, at any time.                                                *)

Switch ==
  /\ at # "over"
  /\ \/ tracer' = ~tracer /\ UNCHANGED <<map, maps, breaker>>   \* setTracer(), destroy()
     \/ maps < MaxMaps /\ maps' = maps + 1 /\ map' = maps' /\ UNCHANGED <<tracer, breaker>>
     \/ map # 0 /\ map' = 0 /\ UNCHANGED <<tracer, maps, breaker>>
     \/ breaker' = ~breaker /\ UNCHANGED <<tracer, map, maps>>
  /\ UNCHANGED <<given, at, sending, span, ends, key, through, outcome>>

(* The call.                                                               *)

Throws(how) == at' = "over" /\ outcome' = how
Goes(step)  == at' = step /\ UNCHANGED outcome

\* A stream cannot be measured.
TooLarge == given.limited /\ (given.large \/ given.body = "stream")

\* A type the caller names is kept, and with it a form or an object as it is.
Encoded ==
  LET keeps == given.type \/ given.body \notin {"form", "object", "params"}
      body  == CASE keeps -> given.body
                 [] given.body = "form" -> "multipart"
                 [] given.body = "object" -> "json"
                 [] OTHER -> "params"
  IN  [body |-> body,
       type |-> IF given.type THEN "own" ELSE IF keeps THEN None ELSE body,
       authorization |-> IF given.header THEN "own" ELSE None,
       cookie |-> IF given.cookie THEN "own" ELSE None,
       trace |-> FALSE, changed |-> FALSE]

Start ==
  /\ at = "start"
  /\ \/ TooLarge /\ Throws("refused") /\ UNCHANGED sending
     \/ ~TooLarge /\ sending' = Encoded /\ Goes("auth")
  /\ UNCHANGED <<given, tracer, map, maps, breaker, span, ends, key, through>>

\* Those of the call, of the client, or of the URL.
Credentials ==
  CASE given.auth = "off"  -> None
    [] given.auth = "call" -> "call"
    [] given.client        -> "client"
    [] given.url           -> "url"
    [] OTHER               -> None

\* A provider of tokens may fail, or return what no header can carry.
Authorize ==
  /\ at = "auth"
  /\ \/ /\ sending' = IF Credentials = None THEN sending
                      ELSE [sending EXCEPT !.authorization = Credentials]
        /\ Goes("transform")
     \/ Credentials # None /\ Throws("failed") /\ UNCHANGED sending
  /\ UNCHANGED <<given, tracer, map, maps, breaker, span, ends, key, through>>

\* transformRequest makes any request of it; nothing is checked again.
Transform ==
  /\ at = "transform"
  /\ \/ UNCHANGED sending /\ Goes("jar")
     \/ sending' = [sending EXCEPT !.changed = TRUE] /\ Goes("jar")
     \/ Throws("failed") /\ UNCHANGED sending
  /\ UNCHANGED <<given, tracer, map, maps, breaker, span, ends, key, through>>

Ended == ends' = IF span' THEN ends + 1 ELSE ends

\* What the key is made of: all but the trace.
Identity(r) == [r EXCEPT !.trace = FALSE]

\* Without a pause from the last look at the map to the call of the factory.
Dispatch ==
  /\ through' = [map |-> map, breaker |-> breaker]
  /\ Goes("inside") /\ UNCHANGED <<ends, key>>

\* Fault: whether there is a map is asked after a pause that is always made.
KeyNeededNot == FALSE

KeyNeeded == map # 0

\* The jar has cookies or none.  From here to the key nothing else runs: the span begins,
\* and building the trace may fail.
AddCookies ==
  /\ at = "jar" /\ span' = tracer
  /\ \E jar \in BOOLEAN :
       sending' = [sending EXCEPT !.cookie = IF jar THEN "jar" ELSE @,
                                  !.trace = tracer \/ given.traced]
  /\ \/ KeyNeeded /\ Goes("key") /\ UNCHANGED <<ends, key, through>>
     \/ ~KeyNeeded /\ Dispatch
     \/ tracer /\ Throws("failed") /\ Ended /\ UNCHANGED <<key, through>>
  /\ UNCHANGED <<given, tracer, map, maps, breaker>>

\* The digest is waited for, and may not be available.
MakeKey ==
  /\ at = "key" /\ UNCHANGED span
  /\ \/ /\ key' = Identity(sending)
        /\ through' = [map |-> map, breaker |-> breaker] /\ Goes("inside") /\ UNCHANGED ends
     \/ Throws("failed") /\ Ended /\ UNCHANGED <<key, through>>
  /\ UNCHANGED <<given, sending, tracer, map, maps, breaker>>

Settle ==
  /\ at = "inside" /\ UNCHANGED span
  /\ \E how \in {"ok", "failed"} : Throws(how)
  /\ Ended
  /\ UNCHANGED <<given, sending, tracer, map, maps, breaker, key, through>>

Next == Switch \/ Start \/ Authorize \/ Transform \/ AddCookies \/ MakeKey \/ Settle

Spec == Init /\ [][Next]_preludeVars

----------------------------------------------------------------------------
\* A span that began is ended once, on every path, though the client may have lost its
\* tracer meanwhile (client.ts 2655-2747, 2789-2806).
SpanEndedOnce == ends = IF span /\ outcome # None THEN 1 ELSE 0

\* A call that goes through a map has a key, of the request that is sent, though the map
\* may have been switched on, off or replaced while it waited (client.ts 2693-2711, 2771-2777).
Keyed ==
  through # None /\ through.map # 0 => key = Identity(sending)

\* Nobody speaks for a call that wants no credentials, and a body that is sent is described,
\* except that of an object, a form or parameters whose type its caller names: these are not
\* encoded for it (client.ts 2586-2636).
Described ==
  sending # None =>
    /\ given.auth = "off" => sending.authorization \in {None, "own"}
    /\ sending.body \in {"multipart", "json"} => sending.type = sending.body
    /\ sending.body \in {"object", "form"} => sending.type = "own"

PreludeHolds == TypeOK /\ SpanEndedOnce /\ Keyed /\ Described
=============================================================================
