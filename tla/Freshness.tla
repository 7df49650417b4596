------------------------------- MODULE Freshness -------------------------------
(***************************************************************************)
(* How long a stored response may be used: what class HTTPCache makes of   *)
(* Cache-Control, Age, Expires, Last-Modified and Vary as it stores a      *)
(* response, as a 304 renews it, and as it answers a request.              *)
(*                                                                         *)
(* One key, read by requests that differ in the fields a response may vary *)
(* by.  The storage and its books are HTTPCache's.  Left out: a lifetime   *)
(* the caller gives, force, honorCacheControl: false, and directives whose *)
(* number cannot be read (NaN: no comparison with it holds, so the entry   *)
(* is dead as it is stored).  A lifetime of a fraction of a millisecond is *)
(* rounded up, which no clock of whole milliseconds can tell.              *)
(***************************************************************************)
EXTENDS Integers, FiniteSetsExt, TLC

CONSTANTS Responses,    \* sets of headers, as records
          Renewals,     \* the headers a 304 may bring, likewise
          VaryFields,   \* of requests
          Values,       \* of a field of a request
          DefaultTtl, MaxAbsoluteAge,   \* of the configuration
          MaxTime,      \* bound: time stops
          None,         \* a header or directive that is not there
          Unreadable    \* a date that cannot be parsed

VARIABLES now,        \* Date.now()
          entry,      \* the entry stored, or an entry of no response
          request,    \* history: the request it was stored for
          said        \* history: what the origin has said first, and last, and when
freshVars == <<now, entry, request, said>>

RequestHeaders == [VaryFields -> Values]
Numbers  == Int \cup {None}
Dates    == Int \cup {None, Unreadable}
Control  == [maxAge : Numbers, sMaxAge : Numbers, swr : Numbers, sie : Numbers,
             flags : SUBSET {"no-store", "private", "no-cache", "must-revalidate", "immutable"}]
Header   == [control : Control, age : Nat, expires : Dates, modified : Dates,
             vary : SUBSET VaryFields \cup {{"*"}}]
NoEntry  == [headers |-> None]

----------------------------------------------------------------------------
(* computeTTL.                                                             *)

Second(a, b) == IF a # None THEN a ELSE b
AtLeast0(n)  == IF n < 0 THEN 0 ELSE n
Smaller(m, n) == IF m < n THEN m ELSE n
Tenth(n)     == (n + 9) \div 10
Year         == 10 * (MaxTime + MaxAbsoluteAge)
Readable(d)  == d \notin {None, Unreadable}

\* Fault: the time that a response has spent at a proxy is not taken off.
ElapsedNot(h) == 0

Elapsed(h)    == h.age

\* The lifetime for shared caches goes first, then the other, a date, and the guess that
\* what has not changed for long will not change soon.  A date of no sense ends the search.
FreshFor(h) ==
  LET given == Second(h.control.sMaxAge, h.control.maxAge)
  IN CASE given # None -> AtLeast0(given - Elapsed(h))
       [] given = None /\ Readable(h.expires) -> AtLeast0(h.expires - now)
       [] given = None /\ h.expires = None /\ Readable(h.modified) ->
            Smaller(Tenth(AtLeast0(now - h.modified)), DefaultTtl)
       [] OTHER -> DefaultTtl

ComputeTTL(h) ==
  IF h.control.flags \cap {"no-store", "private"} # {}
    THEN [ttl |-> 0, swr |-> 0, sie |-> 0]
    ELSE [ttl |-> IF "immutable" \in h.control.flags /\ FreshFor(h) > 0
                    THEN Year ELSE FreshFor(h),
          swr |-> Second(h.control.swr, 0), sie |-> Second(h.control.sie, 0)]

\* buildVaryKey, of a header without "*".
VaryKey(h, r) == [f \in h.vary |-> r[f]]

Times(h) ==
  LET t == ComputeTTL(h)
      capped == Smaller(t.ttl, MaxAbsoluteAge)
  IN [createdAt |-> now, expiresAt |-> now + capped, staleUntil |-> now + capped + t.swr,
      staleOnError |-> now + capped + t.sie]

\* computeMustRevalidate.
MustRevalidate(h) == h.control.flags \cap {"no-cache", "must-revalidate"} # {}

Kept(h, varyKey, must) ==
  [headers |-> h, varyKey |-> varyKey, mustRevalidate |-> must] @@ Times(h)

----------------------------------------------------------------------------
TypeOK ==
  /\ now \in 0..MaxTime
  /\ entry.headers # None => entry.headers \in Header /\ request \in RequestHeaders
  /\ entry.headers # None => entry.createdAt <= entry.expiresAt
                             /\ entry.expiresAt <= entry.createdAt + MaxAbsoluteAge

Init ==
  /\ now = 0 /\ entry = NoEntry
  /\ request = None /\ said = None

\* set(): a response that may not be kept is not.  Nothing of an entry that is stored over
\* remains, so one entry is stored after another only when that is gone (a bound).
Set(h, r) ==
  /\ entry.headers = None
  /\ LET t == ComputeTTL(h) IN t.ttl > 0 \/ t.swr > 0 \/ t.sie > 0
  /\ h.vary # {"*"}
  /\ entry' = Kept(h, VaryKey(h, r), MustRevalidate(h))
  /\ request' = r /\ said' = [first |-> h, last |-> h, at |-> now]
  /\ UNCHANGED now

\* revalidate(): the headers of the 304 over those that were stored, each as a whole.  What
\* the entry says of Vary and of revalidation stays what it was (cache.ts:1152-1153).
Merged(old, new) == [f \in DOMAIN old |-> IF f \in DOMAIN new THEN new[f] ELSE old[f]]

Revalidate(new) ==
  /\ entry.headers # None
  /\ LET h == Merged(entry.headers, new)
     IN /\ entry' = Kept(h, entry.varyKey, entry.mustRevalidate)
        /\ said' = [said EXCEPT !.last = h, !.at = now]
  /\ UNCHANGED <<now, request>>

\* get(): what a request is answered.  The client gives its caller a stale answer as it gives
\* a fresh one, and revalidates it behind the caller's back.
Matches(r) == entry.varyKey # <<>> => /\ entry.headers.vary # {"*"}
                                      /\ VaryKey(entry.headers, r) = entry.varyKey

Answer(r) ==
  CASE entry.headers = None            -> "miss"
    [] entry.headers # None /\ ~Matches(r) -> "miss"
    [] OTHER ->
         IF now - entry.createdAt > MaxAbsoluteAge THEN "dead"
         ELSE IF entry.expiresAt > now THEN IF entry.mustRevalidate THEN "stale" ELSE "fresh"
         ELSE IF entry.staleUntil > now \/ entry.staleOnError > now THEN "stale" ELSE "dead"

\* The answer that the entry is dead deletes it.
GetDead(r) ==
  /\ Answer(r) = "dead"
  /\ entry' = NoEntry /\ request' = None /\ said' = None
  /\ UNCHANGED now

Tick == now < MaxTime /\ now' = now + 1 /\ UNCHANGED <<entry, request, said>>

Next ==
  \/ \E h \in Responses, r \in RequestHeaders : Set(h, r)
  \/ \E h \in Renewals : Revalidate(h)
  \/ \E r \in RequestHeaders : GetDead(r)
  \/ Tick

Spec == Init /\ [][Next]_freshVars

----------------------------------------------------------------------------
(* What the origin has allowed, by its last word.                          *)

\* A use at time t is within the lifetime that the origin gave: its own limit less the age at
\* a proxy; a date; a tenth of the time it had not changed, or the default.
Within(h, t) ==
  LET since == t - said.at
      given == Second(h.control.sMaxAge, h.control.maxAge)
  IN \/ given # None /\ h.age + since < given
     \/ given = None /\ Readable(h.expires) /\ t < h.expires
     \/ /\ given = None /\ h.expires = None /\ Readable(h.modified)
        /\ since < DefaultTtl /\ 10 * since < said.at - h.modified
     \/ /\ given = None /\ since < DefaultTtl
        /\ h.expires = Unreadable \/ (h.expires = None /\ ~Readable(h.modified))
AskedFirst(h) == \E flag \in {"no-cache", "must-revalidate"} : flag \in h.control.flags
Window(h) == Max({Second(h.control.swr, 0), Second(h.control.sie, 0)})

\* An answer is fresh only within the lifetime the origin gave, or for ever if it is immutable,
\* within the absolute limit; and what is not to be stored is never given fresh.  Stale
\* answers are given within the two windows, which begin no earlier than the response came;
\* nobody asks whether there has been an error before the one for errors is used
\* (cache.ts:984-988).  What came with no-cache or must-revalidate is never fresh, yet given
\* as stale while it would be; a 304 that says so changes nothing (cache.ts:676-758, 921-1000).
AnswersAllowed ==
  entry.headers # None =>
    LET h == said.last
        answers == {Answer(r) : r \in RequestHeaders}
    IN /\ "fresh" \in answers =>
             /\ Within(h, now) \/ "immutable" \in h.control.flags
             /\ now - said.at < MaxAbsoluteAge
             /\ h.control.flags \cap {"no-store", "private"} = {}
             /\ ~AskedFirst(said.first)
       /\ "stale" \in answers =>
             \/ now - Window(h) < said.at \/ Within(h, now - Window(h))
             \/ "immutable" \in h.control.flags
       /\ "stale" \in answers /\ Window(h) = 0 => AskedFirst(said.first)

\* A request is given what was stored for a request that does not differ from it in the
\* fields the response came with in Vary; a 304 may only add fields to a response that had
\* none, and they are then not looked at (cache.ts:938-950, 1139-1164).
VaryHeld ==
  entry.headers # None =>
    \A r \in RequestHeaders : Answer(r) \in {"fresh", "stale"} =>
       /\ \A f \in said.first.vary : r[f] = request[f]
       /\ said.first.vary = {} \/ said.last.vary = said.first.vary

FreshnessHolds == TypeOK /\ AnswersAllowed /\ VaryHeld
=============================================================================
